---------------------------- MODULE Spec2Model ----------------------------
(*************************************************************************)
(* A model of the AIDebate message bus (app/chat_log.py ChatLog), the    *)
(* autonomous bot loop (app/bot_client.py BotClient) and the session     *)
(* orchestrator (app/moderator.py Moderator).                            *)
(*                                                                       *)
(* The program runs on one asyncio event loop: code between two awaits   *)
(* that really suspend is one atomic step.  Each action below is one     *)
(* such step of one coroutine.                                           *)
(*************************************************************************)
EXTENDS Integers, Sequences, FiniteSets, TLC

(***************************************************************************)
(* Bounds of the model.                                                    *)
(***************************************************************************)
\* ChatLog(max_messages=...): capacity of the stored window
max_messages == 2
\* number of add_message calls issued in one behaviour of the bus
MaxAppends == 3
\* number of subscribe() calls in one behaviour of the bus
MaxQueues == 2

\* time.time() when the session starts, in seconds
StartTime == 20
\* seconds since the last event when a bot's monitoring is started
SilenceAtStart == 8
\* seconds of the session that are explored
MaxTime == 6
\* events appended by senders other than the bot while one bot is observed
MaxOtherPosts == 1
\* timeouts of the observed bot's loop that the cooldown gate turns away
MaxMissed == 1
\* generator calls of the observed bot that raise or return no text
MaxGenFailures == 1

\* events a human's participation loop appends in one debate
MaxHumanPosts == 1
\* prompts and time announcements of the facilitation loop in one debate
MaxFacilitation == 1
\* turns of the sequential discussion given before its time budget expires
MaxDiscussionTurns == 3
\* phase_times[DISCUSSION] of a timed autonomous discussion, in seconds
DiscussionSeconds == 330
\* seconds by which one round of the facilitation loop can exceed its sleep
MaxLag == 1

\* tasks that call add_message concurrently, each under its own sender name
Callers == {"Alice", "Bob"}
\* the BotClient instances: a debater, Moderator.moderator_bot, and a bot that
\* takes part in no debate and is observed alone
AllBots == {"Socrates", "Moderator", "Plato"}
WatchedBot == "Plato"

NoOne == "none"
NoRequest == [sender |-> NoOne, content |-> 0]

VARIABLES
    \* ---- ChatLog ----
    messages,         \* self.messages: deque(maxlen=...), oldest first
    maxlen,           \* self.messages.maxlen (the max_messages constructor argument)
    put_raises,       \* the queues whose put() raises (a queue its owner has shut down)
    message_counter,  \* self.message_counter
    subscribers,      \* self.subscribers: list of queues (queue identities)
    queue,            \* queue[q]: items currently in asyncio.Queue q
    nq,               \* number of queues created by subscribe() so far
    web_server,       \* self.web_server is set (TRUE) or None (FALSE)
    lockHolder,       \* task holding self._lock, or NoOne
    lockWaiters,      \* FIFO of tasks suspended in self._lock.acquire()
    now,              \* time.time()
    \* ---- tasks calling add_message ----
    cpc,              \* cpc[c]: "idle" | "waiting" (for the lock) | "sink" (awaiting broadcast_message)
    creq,             \* creq[c]: arguments of the call in progress
    \* ---- BotClient (one value per bot) ----
    is_monitoring,      \* self.is_monitoring
    btask,              \* self.monitoring_task: "none" (None) | "wait" (suspended in
                        \* wait_for(message_queue.get())) | "gen" (suspended in
                        \* ai_provider.generate_response) | "done" | "cancelled"
    message_queue,      \* self.message_queue: a queue identity, 0 for None
    cancelPending,      \* monitoring_task.cancel() was called and not yet delivered
    stopping,           \* stop_monitoring(): "none" | "awaiting" (the task) | "returned"
    last_response_time, \* self.last_response_time, seconds
    total_responses,    \* self.total_responses
    current_cooldown,   \* self.current_cooldown, in half seconds
    genKind,            \* which path awaits the generator: "reactive" | "spontaneous" | "starter"
    posts,              \* history: <<timestamp, current_cooldown, path>> of each event the loop appended
    missed_opportunities, \* self.missed_opportunities
    response_urgency,     \* self.response_urgency, in tenths
    gen_failed,           \* history: generator calls of the loop that raised or returned no text
    stats,                \* self.stats: autonomous_responses, silence_breaks,
                          \* conversation_starters, for the bots whose statistics
                          \* are observed
    \* ---- HumanClient (one value per human) ----
    is_active,          \* self.is_active
    htask,              \* the autonomous_participation_loop task: "none" | "input"
                        \* (suspended in interface.get_input) | "backoff" (in the
                        \* sleep of its exception handler) | "done" | "cancelled"
    hqueue,             \* the queue the loop subscribed, 0 before
    hcancel,            \* task.cancel() was called on the loop task and not yet delivered
    hposted,            \* number of events the human's loop appended
    \* ---- Moderator ----
    phase,              \* self.state.phase
    mpc,                \* position of run_debate
    current_speaker,    \* self.state.current_speaker
    warnings_issued,    \* self.state.warnings_issued
    turn,               \* locals of the structured-turn loops: kind, participants
                        \* left, state of response_task, warning_sent
    todo,               \* participants left in the loop that starts, stops or cancels tasks
    raisedExc,          \* run_debate is propagating an exception
    error_reports,      \* history: number of "Debate error" events run_debate appended
    facilitated,        \* number of prompts and time updates of the facilitation loop
    discussion_turns,   \* turns of the sequential discussion given so far
    cancels,            \* history: cancels[p] counts response_task.cancel() in p's turns
    autonomous_mode,    \* self.autonomous_mode
    voting_enabled,     \* self.voting_system.enabled
    turn_order,         \* self.state.turn_order
    last_activity_time,    \* self.last_activity_time, seconds
    last_moderator_prompt, \* self.last_moderator_prompt, seconds
    last_message_count,    \* last_message_count of _facilitate_autonomous_discussion
    \* ---- the transcript file of save_transcript ----
    transcript,       \* written: the file exists; messages: its 'messages' list
    transcribed,      \* history: list(self.messages) when the file was last written
    \* ---- VotingSystem ----
    voting_system,    \* the fields of the VotingSystem object
    returned,         \* the last call observed: its arguments and what it returned or raised
    \* ---- BotClient, outside the monitoring loop (one value per bot) ----
    conversation_history, \* self.conversation_history: the role of each entry
    response_count,       \* self.response_count
    conversation_energy,  \* self.conversation_energy, in tenths
    bot_queues,           \* history: the queues start_autonomous_monitoring subscribed
    orphans,              \* loop tasks still running that self.monitoring_task no
                          \* longer refers to
    \* ---- Moderator, the clock of the sequential discussion ----
    elapsed,          \* time.time() - start_time of the phase, in half seconds
    response_time,    \* response_time of _traditional_discussion_phase, seconds
    time_limit,       \* time_limit of the turn in progress, seconds
    turn_start,       \* elapsed when the turn's polling loop started
    \* ---- history of the add_message calls of the caller tasks (not program state) ----
    appended,         \* every Message in the order add_message stored it
    delivered,        \* delivered[q]: every Message ever put on q, in order
    subAt,            \* subAt[q]: Len(appended) when subscribe() created q
    issued            \* number of add_message calls issued

transcriptVars == <<transcript, transcribed>>
callVars == <<voting_system, returned>>
profileVars == <<conversation_history, response_count, conversation_energy>>
restartVars == <<bot_queues, orphans>>
timingVars == <<elapsed, response_time, time_limit, turn_start>>
extVars == <<transcriptVars, callVars, profileVars, restartVars, timingVars>>
busVars == <<messages, maxlen, extVars, put_raises, message_counter, subscribers, queue, nq, web_server,
             lockHolder, lockWaiters, now>>
callerVars == <<cpc, creq>>
histVars == <<appended, delivered, subAt, issued>>

attnVars == <<missed_opportunities, response_urgency, gen_failed, stats>>
botVars == <<is_monitoring, btask, message_queue, cancelPending, stopping,
             last_response_time, total_responses, current_cooldown, genKind, posts, attnVars>>

humanVars == <<is_active, htask, hqueue, hcancel, hposted>>
modConfig == <<autonomous_mode, voting_enabled, turn_order>>
facilVars == <<last_activity_time, last_moderator_prompt, last_message_count>>
modVars == <<phase, mpc, current_speaker, warnings_issued, turn, todo, raisedExc,
             error_reports, facilitated, discussion_turns, cancels, modConfig, facilVars>>
debateVars == <<humanVars, modVars>>

vars == <<busVars, callerVars, histVars, botVars, humanVars, modVars>>

(***************************************************************************)
(* ChatLog                                                                 *)
(***************************************************************************)
QueueIds == 1..MaxQueues

\* ChatLog.__init__(max_messages: int = 1000)
DefaultMaxMessages == 1000

RangeOf(s) == {s[i] : i \in 1..Len(s)}

\* Message(sender, content, timestamp, message_id, ...)
Message(sender, content, ts, id) ==
    [sender |-> sender, content |-> content, timestamp |-> ts, message_id |-> id]

\* deque(maxlen=cap).append(m): when full, the item at the left end is discarded
DequeAppendOldestKept(d, m, cap) ==
    IF cap = 0 THEN <<>>
    ELSE IF Len(d) >= cap THEN SubSeq(d, 1, cap - 1) \o <<m>>
    ELSE Append(d, m)

DequeAppend(d, m, cap) ==
    IF cap = 0 THEN <<>>
    ELSE IF Len(d) >= cap THEN SubSeq(d, Len(d) - cap + 2, Len(d)) \o <<m>>
    ELSE Append(d, m)

\* self.message_counter += 1
NextIdStuck(counter) == IF counter >= 2 THEN counter ELSE counter + 1

NextId(counter) == counter + 1

\* _notify_subscribers: put the message on every queue of self.subscribers.
\* asyncio.Queue() is unbounded, so put() never suspends; no queue carries a
\* _closed attribute, so the filter keeps the whole list.  A put() that
\* raises is caught inside the loop, which goes on with the next queue.
NotifyStopAtFailure(qs, subs, m) ==
    [q \in DOMAIN qs |->
        IF /\ q \in RangeOf(subs)
           /\ \A k \in 1..Len(subs) :
                 subs[k] \in put_raises => \E j \in 1..(k - 1) : subs[j] = q
        THEN Append(qs[q], m) ELSE qs[q]]

NotifySubscribers(qs, subs, m) ==
    [q \in DOMAIN qs |->
        IF q \in RangeOf(subs) /\ q \notin put_raises THEN Append(qs[q], m) ELSE qs[q]]

\* list.remove(x): removes the first occurrence
ListRemoveFrom(s, x) ==
    LET i == CHOOSE k \in 1..Len(s) : s[k] = x /\ \A j \in 1..(k - 1) : s[j] # x
    IN  SubSeq(s, 1, i - 1)

ListRemove(s, x) ==
    LET i == CHOOSE k \in 1..Len(s) : s[k] = x /\ \A j \in 1..(k - 1) : s[j] # x
    IN  SubSeq(s, 1, i - 1) \o SubSeq(s, i + 1, Len(s))

\* The body of add_message from the lock acquisition to the first await that
\* suspends (web_server.broadcast_message), run by any task.
BusAppend(sender, content) ==
    LET id == NextId(message_counter)
        m  == Message(sender, content, now, id)
    IN  /\ message_counter' = id
        /\ messages' = DequeAppend(messages, m, maxlen)
        /\ queue' = NotifySubscribers(queue, subscribers, m)

\* the part of add_message after the lock is held
AddMessageBody(c, sender, content) ==
    /\ BusAppend(sender, content)
    /\ LET m == Message(sender, content, now, NextId(message_counter))
       IN  /\ delivered' = NotifySubscribers(delivered, subscribers, m)
           /\ appended' = Append(appended, m)
    /\ creq' = [creq EXCEPT ![c] = NoRequest]
    /\ IF web_server
       THEN /\ lockHolder' = c
            /\ cpc' = [cpc EXCEPT ![c] = "sink"]
       ELSE /\ lockHolder' = NoOne
            /\ cpc' = [cpc EXCEPT ![c] = "idle"]

\* a task calls add_message(sender, content): "async with self._lock" either
\* takes the free lock at once or suspends behind the earlier waiters
AddMessageNoLock(c, sender) ==
    /\ cpc[c] = "idle"
    /\ issued < MaxAppends
    /\ issued' = issued + 1
    /\ AddMessageBody(c, sender, issued + 1)
    /\ UNCHANGED lockWaiters
    /\ UNCHANGED <<maxlen, extVars, put_raises, subscribers, nq, web_server, now, subAt, botVars, debateVars>>

AddMessage(c, sender) ==
    /\ cpc[c] = "idle"
    /\ issued < MaxAppends
    /\ issued' = issued + 1
    /\ IF lockHolder = NoOne /\ lockWaiters = <<>>
       THEN /\ AddMessageBody(c, sender, issued + 1)
            /\ UNCHANGED lockWaiters
       ELSE /\ cpc' = [cpc EXCEPT ![c] = "waiting"]
            /\ creq' = [creq EXCEPT ![c] = [sender |-> sender, content |-> issued + 1]]
            /\ lockWaiters' = Append(lockWaiters, c)
            /\ UNCHANGED <<messages, message_counter, queue, delivered, appended,
                           lockHolder>>
    /\ UNCHANGED <<maxlen, extVars, put_raises, subscribers, nq, web_server, now, subAt, botVars, debateVars>>

\* the first waiter of the released lock resumes inside add_message
AddMessageAcquire(c) ==
    /\ cpc[c] = "waiting"
    /\ lockHolder = NoOne
    /\ lockWaiters # <<>> /\ Head(lockWaiters) = c
    /\ lockWaiters' = Tail(lockWaiters)
    /\ AddMessageBody(c, creq[c].sender, creq[c].content)
    /\ UNCHANGED <<maxlen, extVars, put_raises, subscribers, nq, web_server, now, subAt, issued, botVars,
                   debateVars>>

\* web_server.broadcast_message returns or raises (the exception is caught and
\* printed); add_message leaves the lock and returns the message
SinkDone(c) ==
    /\ cpc[c] = "sink"
    /\ lockHolder = c
    /\ lockHolder' = NoOne
    /\ cpc' = [cpc EXCEPT ![c] = "idle"]
    /\ UNCHANGED <<messages, maxlen, extVars, put_raises, message_counter, subscribers, queue, nq,
                   web_server, lockWaiters, now, creq, histVars, botVars,
                   debateVars>>

\* subscribe(): a new queue, appended to self.subscribers
SubscribeReplay(q) ==
    /\ q = nq + 1
    /\ q \in QueueIds
    /\ nq' = q
    /\ subscribers' = Append(subscribers, q)
    /\ queue' = queue @@ (q :> messages)
    /\ delivered' = delivered @@ (q :> messages)
    /\ subAt' = subAt @@ (q :> Len(appended))
    /\ UNCHANGED <<messages, maxlen, extVars, put_raises, message_counter, web_server, lockHolder,
                   lockWaiters, now, callerVars, appended, issued, botVars,
                   debateVars>>

Subscribe(q) ==
    /\ q = nq + 1
    /\ q \in QueueIds
    /\ nq' = q
    /\ subscribers' = Append(subscribers, q)
    /\ queue' = queue @@ (q :> <<>>)
    /\ delivered' = delivered @@ (q :> <<>>)
    /\ subAt' = subAt @@ (q :> Len(appended))
    /\ UNCHANGED <<messages, maxlen, extVars, put_raises, message_counter, web_server, lockHolder,
                   lockWaiters, now, callerVars, appended, issued, botVars,
                   debateVars>>

\* unsubscribe(queue)
Unsubscribe(q) ==
    /\ q \in 1..nq
    /\ subscribers' = IF q \in RangeOf(subscribers) THEN ListRemove(subscribers, q)
                      ELSE subscribers
    /\ UNCHANGED <<messages, maxlen, extVars, put_raises, message_counter, queue, nq, web_server,
                   lockHolder, lockWaiters, now, callerVars, histVars, botVars,
                   debateVars>>

\* no transcript has been written
NoTranscript ==
    /\ transcript = [written |-> FALSE, messages |-> <<>>]
    /\ transcribed = <<>>

\* VotingSystem.__init__
VotingSystemInit(allow, justify) ==
    [allow_participant_voting |-> allow, require_justification |-> justify,
     is_active |-> FALSE, candidates |-> <<>>, eligible_voters |-> <<>>,
     votes |-> <<>>, end_time |-> 0]

NoCall == [op |-> "none"]

\* BotClient.__init__: conversation_history, response_count, conversation_energy
ProfileInit ==
    /\ conversation_history = [b \in AllBots |-> <<>>]
    /\ response_count = [b \in AllBots |-> 0]
    /\ conversation_energy = [b \in AllBots |-> 10]

ExtInit ==
    /\ NoTranscript
    /\ voting_system = VotingSystemInit(TRUE, TRUE)
    /\ returned = NoCall
    /\ ProfileInit

BusInit ==
    /\ messages = <<>>
    /\ message_counter = 0
    /\ subscribers = <<>>
    /\ queue = <<>>
    /\ nq = 0
    /\ lockHolder = NoOne
    /\ lockWaiters = <<>>
    /\ appended = <<>>
    /\ delivered = <<>>
    /\ subAt = <<>>
    /\ issued = 0

CallersInit ==
    /\ cpc = [c \in Callers |-> "idle"]
    /\ creq = [c \in Callers |-> NoRequest]

(***************************************************************************)
(* BotClient: the autonomous monitoring loop.  Times are in seconds; the   *)
(* cooldown grows by half a second per response, so current_cooldown is    *)
(* kept in half seconds.                                                   *)
(***************************************************************************)
\* BotConfig.min_cooldown, BotConfig.max_cooldown (seconds)
min_cooldown == 5
max_cooldown == 12

Max2(a, b) == IF a >= b THEN a ELSE b
Min2(a, b) == IF a <= b THEN a ELSE b

\* BotClient.__init__, the fields of the monitoring loop
BotLoopInit ==
    /\ is_monitoring = [b \in AllBots |-> FALSE]
    /\ btask = [b \in AllBots |-> "none"]
    /\ message_queue = [b \in AllBots |-> 0]
    /\ cancelPending = [b \in AllBots |-> FALSE]
    /\ stopping = [b \in AllBots |-> "none"]
    /\ last_response_time = [b \in AllBots |-> 0]
    /\ total_responses = [b \in AllBots |-> 0]
    /\ current_cooldown = [b \in AllBots |-> 2 * min_cooldown]
    /\ genKind = [b \in AllBots |-> "none"]
    /\ posts = [b \in AllBots |-> <<>>]
    /\ gen_failed = [b \in AllBots |-> 0]
    /\ bot_queues = [b \in AllBots |-> <<>>]
    /\ orphans = [b \in AllBots |-> 0]

\* self.stats of BotClient.__init__; the statistics are followed for the
\* bots that are observed
Statistics(observed) ==
    [observed |-> observed, autonomous_responses |-> 0, silence_breaks |-> 0,
     conversation_starters |-> 0]

StatsInit == stats = [b \in AllBots |-> Statistics(FALSE)]

\* the statistics after _generate_autonomous_response has returned to the
\* path that called it, having appended a response (posted) or not
StatsAfter(s, kind, posted) ==
    IF ~s.observed THEN s
    ELSE [s EXCEPT !.autonomous_responses = IF posted THEN @ + 1 ELSE @,
                   !.silence_breaks = IF kind = "spontaneous" THEN @ + 1 ELSE @,
                   !.conversation_starters = IF kind = "starter" THEN @ + 1 ELSE @]

BotInit ==
    /\ BotLoopInit
    /\ StatsInit
    /\ missed_opportunities = [b \in AllBots |-> 0]
    /\ response_urgency = [b \in AllBots |-> 0]

\* add_message called by a task while the lock is free and no web server is
\* attached: it runs to its return without suspending
BusPost(sender, content) ==
    /\ lockHolder = NoOne /\ ~web_server
    /\ BusAppend(sender, content)
    /\ UNCHANGED <<maxlen, extVars, put_raises, subscribers, nq, web_server, lockHolder, lockWaiters,
                   now, appended, delivered, subAt>>

\* time.time() - self.last_response_time < self.current_cooldown
CooldownNeverActive(b) == FALSE

CooldownAlwaysActive(b) == TRUE

CooldownActive(b) == 2 * (now - last_response_time[b]) < current_cooldown[b]

\* the cooldown without its upper clamp
NewCooldownUnclamped(total) == Max2(2 * min_cooldown, 2 * min_cooldown + total)

\* max(min_cooldown, min_cooldown + total_responses * 0.5), then min(.., max_cooldown)
NewCooldown(total) ==
    Min2(Max2(2 * min_cooldown, 2 * min_cooldown + total), 2 * max_cooldown)

\* "while self.is_monitoring": the loop waits again or its task ends
LoopTop(mon) == IF mon THEN "wait" ELSE "done"

\* sum(1 for msg in full_history[-5:] if msg.sender == self.name)
MyRecentCount(b, hist) ==
    LET lo == IF Len(hist) >= 5 THEN Len(hist) - 4 ELSE 1
    IN  Cardinality({i \in lo..Len(hist) : hist[i].sender = b})

\* _analyze_response_triggers: direct_mention is set when the content names
\* the bot, one of its aliases, or a word addressed to all ("everyone", "all",
\* "thoughts", "anyone"); such content is written "mention"
DirectMention(b, msg) == msg.content = "mention"

\* _should_respond_autonomously: a direct mention returns True before any
\* probability is computed; otherwise the result is random.random() <
\* final_probability, with final_probability at most 0.95 (draw)
ShouldRespondDrawOnly(b, msg, draw) == draw

ShouldRespond(b, msg, draw) == IF DirectMention(b, msg) THEN TRUE ELSE draw

\* The attention counters are followed for the bot that is observed alone.
\* Nothing reads missed_opportunities, and response_urgency only enters the
\* probability whose draw is left free.
Tracked(b) == b = WatchedBot

\* self.missed_opportunities after: the cooldown gate turned a message or a
\* timeout away ("gated"), _should_respond_autonomously drew a pass ("pass"),
\* or a response was appended ("posted")
MissedAfter(m, event) ==
    CASE event = "gated"  -> m + 1
      [] event = "pass"   -> m + 1
      [] event = "posted" -> Max2(0, m - 1)
      [] OTHER            -> m

\* the urgency lowered without its floor
UrgencyAfterUnfloored(u, event) ==
    CASE event = "gated"  -> u + 1
      [] event = "posted" -> u - 3
      [] OTHER            -> u

\* self.response_urgency after the same events: += 0.1 at the gate,
\* max(0, urgency - 0.3) after a response
UrgencyAfter(u, event) ==
    CASE event = "gated"  -> u + 1
      [] event = "posted" -> Max2(0, u - 3)
      [] OTHER            -> u

Attention(b, event) ==
    IF Tracked(b)
    THEN /\ missed_opportunities' =
                [missed_opportunities EXCEPT ![b] = MissedAfter(@, event)]
         /\ response_urgency' = [response_urgency EXCEPT ![b] = UrgencyAfter(@, event)]
    ELSE UNCHANGED <<missed_opportunities, response_urgency>>

\* start_autonomous_monitoring: subscribe, create the loop task
BotStart(b) ==
    /\ is_monitoring' = [is_monitoring EXCEPT ![b] = TRUE]
    /\ nq' = nq + 1
    /\ subscribers' = Append(subscribers, nq + 1)
    /\ queue' = queue @@ ((nq + 1) :> <<>>)
    /\ delivered' = delivered @@ ((nq + 1) :> <<>>)
    /\ subAt' = subAt @@ ((nq + 1) :> Len(appended))
    /\ message_queue' = [message_queue EXCEPT ![b] = nq + 1]
    /\ btask' = [btask EXCEPT ![b] = "wait"]
    /\ UNCHANGED <<messages, maxlen, extVars, put_raises, message_counter, web_server, lockHolder,
                   lockWaiters, now, appended, issued>>
    /\ UNCHANGED <<cancelPending, stopping, last_response_time, total_responses,
                   current_cooldown, genKind, posts, attnVars>>

\* no message is taken for the bot's own
SkipsOwnNever(b, msg) == FALSE

\* "if message.sender == self.name: continue"
SkipsOwn(b, msg) == msg.sender = b

\* the loop takes the next message of its queue: a message of its own is
\* skipped, another sender's goes to _process_new_message (cooldown gate, then
\* the accept/reject decision, then the generator call)
BotReceive(b, accept) ==
    LET q   == message_queue[b]
        msg == Head(queue[q])
    IN  /\ btask[b] = "wait"
        /\ ~cancelPending[b]
        /\ q # 0 /\ queue[q] # <<>>
        /\ queue' = [queue EXCEPT ![q] = Tail(queue[q])]
        /\ UNCHANGED cancelPending
        /\ IF SkipsOwn(b, msg) \/ CooldownActive(b) \/ ~ShouldRespond(b, msg, accept)
           THEN /\ btask' = [btask EXCEPT ![b] = LoopTop(is_monitoring[b])]
                /\ UNCHANGED genKind
           ELSE /\ btask' = [btask EXCEPT ![b] = "gen"]
                /\ genKind' = [genKind EXCEPT ![b] = "reactive"]
        /\ Attention(b, IF SkipsOwn(b, msg) THEN "none"
                        ELSE IF CooldownActive(b) THEN "gated"
                        ELSE IF ~ShouldRespond(b, msg, accept) THEN "pass"
                        ELSE "none")
        /\ UNCHANGED <<gen_failed, stats>>
        /\ UNCHANGED <<messages, maxlen, extVars, put_raises, message_counter, subscribers, nq, web_server,
                       lockHolder, lockWaiters, now, histVars>>
        /\ UNCHANGED <<is_monitoring, message_queue, stopping, last_response_time,
                       total_responses, current_cooldown, posts>>

\* the silence-break decided without looking at the last five senders
SpontaneousKindAnySender(b, thr, breakDraw, startDraw) ==
    LET hist    == messages
        silence == now - hist[Len(hist)].timestamp
    IN  IF CooldownActive(b) \/ Len(hist) = 0 THEN "none"
        ELSE IF silence > thr
             THEN (IF breakDraw THEN "spontaneous" ELSE "none")
        ELSE IF Len(hist) > 3 /\ now - last_response_time[b] > 15 /\ startDraw
             THEN "starter"
        ELSE "none"

\* wait_for times out with no message: _check_spontaneous_contribution.
\* thr is random.uniform(7, 10); breakDraw is random.random() < 0.85 and
\* startDraw is random.random() < 0.3
SpontaneousKind(b, thr, breakDraw, startDraw) ==
    LET hist    == messages
        silence == now - hist[Len(hist)].timestamp
    IN  IF CooldownActive(b) \/ Len(hist) = 0 THEN "none"
        ELSE IF silence > thr
             THEN (IF MyRecentCount(b, hist) = 0 /\ breakDraw
                   THEN "spontaneous" ELSE "none")
        ELSE IF Len(hist) > 3 /\ now - last_response_time[b] > 15 /\ startDraw
             THEN "starter"
        ELSE "none"

BotTimeout(b, thr, breakDraw, startDraw) ==
    LET kind == SpontaneousKind(b, thr, breakDraw, startDraw)
    IN  /\ btask[b] = "wait"
        /\ ~cancelPending[b]
        /\ message_queue[b] # 0 /\ queue[message_queue[b]] = <<>>
        /\ (Tracked(b) /\ CooldownActive(b)) => missed_opportunities[b] < MaxMissed
        /\ Attention(b, IF CooldownActive(b) THEN "gated" ELSE "none")
        /\ UNCHANGED <<gen_failed, stats>>
        /\ IF kind = "none"
           THEN /\ btask' = [btask EXCEPT ![b] = LoopTop(is_monitoring[b])]
                /\ UNCHANGED genKind
           ELSE /\ btask' = [btask EXCEPT ![b] = "gen"]
                /\ genKind' = [genKind EXCEPT ![b] = kind]
        /\ UNCHANGED <<busVars, histVars>>
        /\ UNCHANGED <<is_monitoring, message_queue, cancelPending, stopping,
                       last_response_time, total_responses, current_cooldown, posts>>

\* a generator call whose exception is not handled: it ends the loop task
BotGenReturnFatal(b, outcome) ==
    /\ btask[b] = "gen"
    /\ ~cancelPending[b]
    /\ IF outcome = "text"
       THEN /\ BusPost(b, "auto")
            /\ UNCHANGED issued
            /\ last_response_time' = [last_response_time EXCEPT ![b] = now]
            /\ total_responses' = [total_responses EXCEPT ![b] = @ + 1]
            /\ current_cooldown' =
                   [current_cooldown EXCEPT ![b] = NewCooldown(total_responses[b] + 1)]
            /\ posts' = [posts EXCEPT ![b] = Append(@, <<now, current_cooldown[b], genKind[b]>>)]
            /\ Attention(b, "posted")
            /\ stats' = [stats EXCEPT ![b] = StatsAfter(@, genKind[b], TRUE)]
            /\ UNCHANGED gen_failed
       ELSE /\ Tracked(b) => gen_failed[b] < MaxGenFailures
            /\ gen_failed' = [gen_failed EXCEPT ![b] = IF Tracked(b) THEN @ + 1 ELSE @]
            /\ stats' = [stats EXCEPT ![b] = StatsAfter(@, genKind[b], FALSE)]
            /\ UNCHANGED <<missed_opportunities, response_urgency>>
            /\ UNCHANGED <<busVars, histVars>>
            /\ UNCHANGED <<last_response_time, total_responses, current_cooldown, posts>>
    /\ btask' = [btask EXCEPT ![b] = IF outcome = "raise" THEN "done"
                                     ELSE LoopTop(is_monitoring[b])]
    /\ genKind' = [genKind EXCEPT ![b] = "none"]
    /\ UNCHANGED <<is_monitoring, message_queue, cancelPending, stopping>>

\* generate_response returns text, returns nothing or raises; on text
\* _generate_autonomous_response appends it and updates the cooldown state;
\* otherwise it returns None (an exception is caught and counted)
BotGenReturn(b, outcome) ==
    /\ btask[b] = "gen"
    /\ ~cancelPending[b]
    /\ IF outcome = "text"
       THEN /\ BusPost(b, "auto")
            /\ UNCHANGED issued
            /\ last_response_time' = [last_response_time EXCEPT ![b] = now]
            /\ total_responses' = [total_responses EXCEPT ![b] = @ + 1]
            /\ current_cooldown' =
                   [current_cooldown EXCEPT ![b] = NewCooldown(total_responses[b] + 1)]
            /\ posts' = [posts EXCEPT ![b] = Append(@, <<now, current_cooldown[b], genKind[b]>>)]
            /\ Attention(b, "posted")
            /\ stats' = [stats EXCEPT ![b] = StatsAfter(@, genKind[b], TRUE)]
            /\ UNCHANGED gen_failed
       ELSE /\ Tracked(b) => gen_failed[b] < MaxGenFailures
            /\ gen_failed' = [gen_failed EXCEPT ![b] = IF Tracked(b) THEN @ + 1 ELSE @]
            /\ stats' = [stats EXCEPT ![b] = StatsAfter(@, genKind[b], FALSE)]
            /\ UNCHANGED <<missed_opportunities, response_urgency>>
            /\ UNCHANGED <<busVars, histVars>>
            /\ UNCHANGED <<last_response_time, total_responses, current_cooldown, posts>>
    /\ btask' = [btask EXCEPT ![b] = LoopTop(is_monitoring[b])]
    /\ genKind' = [genKind EXCEPT ![b] = "none"]
    /\ UNCHANGED <<is_monitoring, message_queue, cancelPending, stopping>>

\* the CancelledError of monitoring_task.cancel() is raised at the await the
\* loop is suspended in; no handler of the loop catches it
BotCancelled(b) ==
    /\ cancelPending[b]
    /\ btask[b] \in {"wait", "gen"}
    /\ btask' = [btask EXCEPT ![b] = "cancelled"]
    /\ cancelPending' = [cancelPending EXCEPT ![b] = FALSE]
    /\ genKind' = [genKind EXCEPT ![b] = "none"]
    /\ UNCHANGED <<busVars, histVars>>
    /\ UNCHANGED <<is_monitoring, message_queue, stopping, last_response_time,
                   total_responses, current_cooldown, posts, attnVars>>

\* "if self.message_queue and self.chat_log: chat_log.unsubscribe(...)" at the
\* end of stop_monitoring; a ChatLog without events is false (__bool__)
StopUnsubscribeNothing(b) == subscribers

StopUnsubscribe(b) ==
    IF message_queue[b] # 0 /\ messages # <<>>
       /\ message_queue[b] \in RangeOf(subscribers)
    THEN ListRemove(subscribers, message_queue[b])
    ELSE subscribers

\* monitoring_task.cancel() while the loop is suspended in
\* wait_for(message_queue.get()) and the queue already holds an item: up to
\* Python 3.11 wait_for hands the item to the loop and the cancellation is
\* lost, from Python 3.12 on the cancellation is delivered
CancelOutcomes(b) ==
    IF btask[b] = "wait" /\ message_queue[b] # 0 /\ queue[message_queue[b]] # <<>>
    THEN {"delivered", "lost"}
    ELSE {"delivered"}

\* stop_monitoring up to "await self.monitoring_task"; with no task, or a
\* task that has ended, it goes on to unsubscribe and returns
BotStopBegin(b) ==
    /\ stopping[b] # "awaiting"
    /\ is_monitoring' = [is_monitoring EXCEPT ![b] = FALSE]
    /\ IF btask[b] \in {"wait", "gen"}
       THEN /\ \E outcome \in CancelOutcomes(b) :
                   cancelPending' = [cancelPending EXCEPT ![b] = (outcome = "delivered")]
            /\ stopping' = [stopping EXCEPT ![b] = "awaiting"]
            /\ UNCHANGED subscribers
       ELSE /\ subscribers' = StopUnsubscribe(b)
            /\ stopping' = [stopping EXCEPT ![b] = "returned"]
            /\ UNCHANGED cancelPending
    /\ UNCHANGED <<messages, maxlen, extVars, put_raises, message_counter, queue, nq, web_server,
                   lockHolder, lockWaiters, now, histVars>>
    /\ UNCHANGED <<btask, message_queue, last_response_time, total_responses,
                   current_cooldown, genKind, posts, attnVars>>

\* the awaited task has ended: unsubscribe and return
BotStopFinish(b) ==
    /\ stopping[b] = "awaiting"
    /\ btask[b] \in {"done", "cancelled"}
    /\ subscribers' = StopUnsubscribe(b)
    /\ stopping' = [stopping EXCEPT ![b] = "returned"]
    /\ UNCHANGED <<messages, maxlen, extVars, put_raises, message_counter, queue, nq, web_server,
                   lockHolder, lockWaiters, now, histVars>>
    /\ UNCHANGED <<is_monitoring, btask, message_queue, cancelPending,
                   last_response_time, total_responses, current_cooldown, genKind, posts,
                   attnVars>>

(***************************************************************************)
(* Moderator and HumanClient: state after construction.                    *)
(***************************************************************************)
\* the participants a Moderator can be given: a bot and a human
Participants == {"Socrates", "Human_1"}
Humans == {"Human_1"}
ModeratorBot == "Moderator"

NoTurn == [kind |-> "none", left |-> <<>>, resp |-> "none", warned |-> FALSE]

HumanInit ==
    /\ is_active = [h \in Humans |-> TRUE]
    /\ htask = [h \in Humans |-> "none"]
    /\ hqueue = [h \in Humans |-> 0]
    /\ hcancel = [h \in Humans |-> FALSE]
    /\ hposted = 0

\* total_time and config['response_time'] of the sequential discussion that
\* is timed, in seconds
TotalSeconds == 3
ResponseSeconds == 2

\* config.get('warning_time', 90)
warning_time == 90

\* no sequential discussion has started its clock
TimingInit ==
    /\ elapsed = 0
    /\ response_time = ResponseSeconds
    /\ time_limit = 0
    /\ turn_start = 0

ModeratorInit ==
    /\ phase = "INTRODUCTION"
    /\ mpc = "start"
    /\ current_speaker = NoOne
    /\ warnings_issued = [p \in Participants |-> 0]
    /\ TimingInit
    /\ turn = NoTurn
    /\ todo = <<>>
    /\ raisedExc = FALSE
    /\ error_reports = 0
    /\ facilitated = 0
    /\ discussion_turns = 0
    /\ cancels = [p \in Participants |-> 0]
    /\ last_activity_time = StartTime
    /\ last_moderator_prompt = 0
    /\ last_message_count = 0

\* no debate is run: the bus or one bot is observed alone
DebateIdle ==
    /\ HumanInit
    /\ ModeratorInit
    /\ autonomous_mode = TRUE
    /\ voting_enabled = TRUE
    /\ turn_order = <<"Socrates", "Human_1">>

(***************************************************************************)
(* One bot on the bus: another sender posts, time passes, the bot is       *)
(* started once and stopped.                                               *)
(***************************************************************************)
TheBot == "Socrates"
OtherSender == "Alice"

\* The bus when monitoring starts: run_debate has appended the introduction,
\* the opening announcement and one turn; the turn's response is the bot's
\* own or another participant's.
OpeningHistory(speaker) ==
    LET t == StartTime - SilenceAtStart
    IN  << Message("moderator", "intro", t, 1),
           Message("moderator", "opening", t, 2),
           Message("moderator", "turn", t, 3),
           Message(speaker, "response", t, 4) >>

\* a ChatLog without subscribers, all tasks idle
QuietBus ==
    /\ appended = <<>>
    /\ subscribers = <<>>
    /\ queue = <<>>
    /\ nq = 0
    /\ lockHolder = NoOne
    /\ lockWaiters = <<>>
    /\ delivered = <<>>
    /\ subAt = <<>>
    /\ issued = 0
    /\ CallersInit
    /\ DebateIdle
    /\ maxlen = DefaultMaxMessages
    /\ put_raises = {}
    /\ web_server = FALSE
    /\ now = StartTime

OpenedBus ==
    /\ \E speaker \in {TheBot, OtherSender} : messages = OpeningHistory(speaker)
    /\ message_counter = 4
    /\ QuietBus

InitBot ==
    /\ OpenedBus
    /\ BotInit
    /\ ExtInit

\* the orchestrator starts the bot's monitoring
StartMonitoring ==
    /\ btask[TheBot] = "none"
    /\ stopping[TheBot] = "none"
    /\ BotStart(TheBot)
    /\ UNCHANGED <<callerVars, debateVars>>

\* a participant other than the bot appends an event
OtherPost ==
    /\ issued < MaxOtherPosts
    /\ BusPost(OtherSender, "chat")
    /\ issued' = issued + 1
    /\ UNCHANGED <<callerVars, botVars, debateVars>>

\* a second passes
Tick ==
    /\ now < StartTime + MaxTime
    /\ now' = now + 1
    /\ UNCHANGED <<messages, maxlen, extVars, put_raises, message_counter, subscribers, queue, nq,
                   web_server, lockHolder, lockWaiters>>
    /\ UNCHANGED <<callerVars, histVars, botVars, debateVars>>

Receive ==
    \E accept \in BOOLEAN :
        BotReceive(TheBot, accept) /\ UNCHANGED <<callerVars, debateVars>>

Timeout ==
    \E thr \in 7..10, breakDraw \in BOOLEAN, startDraw \in BOOLEAN :
        BotTimeout(TheBot, thr, breakDraw, startDraw)
        /\ UNCHANGED <<callerVars, debateVars>>

GenReturn ==
    \E outcome \in {"text", "empty", "raise"} :
        BotGenReturn(TheBot, outcome) /\ UNCHANGED <<callerVars, debateVars>>

Cancelled == BotCancelled(TheBot) /\ UNCHANGED <<callerVars, debateVars>>

StopMonitoring == BotStopBegin(TheBot) /\ UNCHANGED <<callerVars, debateVars>>

StopMonitoringReturn == BotStopFinish(TheBot) /\ UNCHANGED <<callerVars, debateVars>>

NextBot ==
    \/ StartMonitoring
    \/ OtherPost
    \/ Tick
    \/ Receive
    \/ Timeout
    \/ GenReturn
    \/ Cancelled
    \/ StopMonitoring
    \/ StopMonitoringReturn

SpecBot == InitBot /\ [][NextBot]_vars

(***************************************************************************)
(* C5: once stop_monitoring() has returned for a bot, is_monitoring is     *)
(* false, the bot's loop task has ended, its queue is not in the           *)
(* subscriber list, and no later step appends an event under its name.     *)
(***************************************************************************)
EventsOf(b) == Cardinality({i \in 1..Len(messages) : messages[i].sender = b})

C8_PostsRespectCooldown ==
    \A b \in AllBots :
        \A i \in 1..(Len(posts[b]) - 1) :
            2 * (posts[b][i + 1][1] - posts[b][i][1]) >= posts[b][i][2]

\* a silence break followed by a later post of the same bot
C8_Witness ==
    /\ Len(posts[TheBot]) >= 2
    /\ posts[TheBot][1][3] = "spontaneous"
    /\ posts[TheBot][2][3] = "reactive"

(***************************************************************************)
(* One monitoring bot and its attention counters: another sender posts     *)
(* events that address the bot or do not, time passes, the generator       *)
(* returns text, returns nothing or raises.                                *)
(***************************************************************************)
WatchStart ==
    /\ btask[WatchedBot] = "none"
    /\ BotStart(WatchedBot)
    /\ UNCHANGED <<callerVars, debateVars>>

\* a participant other than the bot appends an event, which addresses the bot
\* ("mention") or does not ("chat")
WatchOtherPost ==
    /\ issued < MaxOtherPosts
    /\ \E content \in {"chat", "mention"} : BusPost(OtherSender, content)
    /\ issued' = issued + 1
    /\ UNCHANGED <<callerVars, botVars, debateVars>>

WatchReceive ==
    \E accept \in BOOLEAN :
        BotReceive(WatchedBot, accept) /\ UNCHANGED <<callerVars, debateVars>>

WatchTimeout ==
    \E thr \in 7..10, breakDraw \in BOOLEAN, startDraw \in BOOLEAN :
        BotTimeout(WatchedBot, thr, breakDraw, startDraw)
        /\ UNCHANGED <<callerVars, debateVars>>

WatchGenReturn ==
    \E outcome \in {"text", "empty", "raise"} :
        BotGenReturn(WatchedBot, outcome) /\ UNCHANGED <<callerVars, debateVars>>

NextAttention ==
    \/ WatchStart
    \/ WatchOtherPost
    \/ Tick
    \/ WatchReceive
    \/ WatchTimeout
    \/ WatchGenReturn

SpecAttention == InitBot /\ [][NextAttention]_vars

\* the step in which b's loop takes the next message of its queue
TakesMessage(b) ==
    /\ btask[b] = "wait"
    /\ message_queue[b] # 0
    /\ queue[message_queue[b]] # <<>>
    /\ queue'[message_queue[b]] = Tail(queue[message_queue[b]])

NextMessage(b) == Head(queue[message_queue[b]])

(***************************************************************************)
(* C15: when a generator call of the monitoring loop raises or returns no  *)
(* text, that step appends no event, leaves last_response_time,            *)
(* total_responses and current_cooldown as they were, and the loop is back *)
(* at the wait for the next event or timeout.                              *)
(***************************************************************************)
C15_FailedGenerationChangesNothing ==
    [][\A b \in AllBots :
          gen_failed'[b] > gen_failed[b] =>
              /\ btask[b] = "gen"
              /\ messages' = messages
              /\ message_counter' = message_counter
              /\ last_response_time'[b] = last_response_time[b]
              /\ total_responses'[b] = total_responses[b]
              /\ current_cooldown'[b] = current_cooldown[b]
              /\ is_monitoring'[b] = is_monitoring[b]
              /\ btask'[b] = LoopTop(is_monitoring[b])]_vars

\* after a failed call the loop has gone on to a further generation call
C15_Witness ==
    /\ gen_failed[WatchedBot] >= 1
    /\ btask[WatchedBot] = "gen"
    /\ message_counter = 4

(***************************************************************************)
(* C17: when the loop takes a message of another sender that addresses the *)
(* bot and the cooldown has elapsed, it goes to the generator call on the  *)
(* reactive path, whatever the draw and the attention counters are.        *)
(***************************************************************************)
C17_DirectMentionIsAnswered ==
    [][\A b \in AllBots :
          ( /\ TakesMessage(b)
            /\ NextMessage(b).sender # b
            /\ DirectMention(b, NextMessage(b))
            /\ 2 * (now - last_response_time[b]) >= current_cooldown[b] )
          => /\ btask'[b] = "gen"
             /\ genKind'[b] = "reactive"]_vars

\* the bot has spoken, was turned away once by the gate, and is now
\* generating its answer to a message that addresses it
C17_Witness ==
    /\ btask[WatchedBot] = "gen"
    /\ genKind[WatchedBot] = "reactive"
    /\ messages[Len(messages)].sender = OtherSender
    /\ messages[Len(messages)].content = "mention"
    /\ Len(posts[WatchedBot]) >= 1
    /\ response_urgency[WatchedBot] >= 1

(***************************************************************************)
(* C18: a message of another sender taken while less than current_cooldown *)
(* has passed since last_response_time adds one to missed_opportunities,   *)
(* raises response_urgency and starts no generator call; taken later, it   *)
(* is scored: a generator call starts, or the draw passes (one more missed *)
(* opportunity, response_urgency as it was).  Up to the first response the *)
(* cooldown is more than 3 and at most 6 seconds.                          *)
(***************************************************************************)
C18_CooldownGate ==
    /\ [][\A b \in {WatchedBot} :
             (TakesMessage(b) /\ NextMessage(b).sender # b) =>
                 IF 2 * (now - last_response_time[b]) < current_cooldown[b]
                 THEN /\ missed_opportunities'[b] = missed_opportunities[b] + 1
                      /\ response_urgency'[b] = response_urgency[b] + 1
                      /\ btask'[b] # "gen"
                      /\ genKind'[b] = genKind[b]
                 ELSE \/ /\ btask'[b] = "gen"
                         /\ missed_opportunities'[b] = missed_opportunities[b]
                         /\ response_urgency'[b] = response_urgency[b]
                      \/ /\ btask'[b] # "gen"
                         /\ missed_opportunities'[b] = missed_opportunities[b] + 1
                         /\ response_urgency'[b] = response_urgency[b]]_vars
    /\ [](\A b \in AllBots :
             total_responses[b] <= 1 =>
                 (2 * 3 < current_cooldown[b] /\ 2 * 6 >= current_cooldown[b]))

\* the bot has spoken and, still inside its cooldown, has taken a message of
\* another sender
C18_Witness ==
    /\ Len(posts[WatchedBot]) >= 1
    /\ 2 * (now - last_response_time[WatchedBot]) < current_cooldown[WatchedBot]
    /\ messages[Len(messages)].sender = OtherSender
    /\ messages[Len(messages)].timestamp >= last_response_time[WatchedBot]
    /\ message_queue[WatchedBot] # 0
    /\ queue[message_queue[WatchedBot]] = <<>>
    /\ btask[WatchedBot] = "wait"
    /\ missed_opportunities[WatchedBot] >= 1
    /\ response_urgency[WatchedBot] >= 1

(***************************************************************************)
(* One bot on the bus, with the scheduling of the event loop: a task whose *)
(* cancellation is pending is resumed, a loop whose queue holds an item is *)
(* resumed, stop_monitoring is resumed when the task it awaits has ended.  *)
(* Nothing obliges a generator call to return.                             *)
(***************************************************************************)
SpecBotFair ==
    /\ InitBot
    /\ [][NextBot]_vars
    /\ WF_vars(Cancelled)
    /\ WF_vars(Receive)
    /\ WF_vars(StopMonitoringReturn)

(***************************************************************************)
(* C16: a stop_monitoring() call that waits for the loop task returns,     *)
(* with the loop task ended and no generator call pending, whichever       *)
(* await the loop was suspended in when it was called.                     *)
(***************************************************************************)
C16_StopCompletes ==
    (stopping[TheBot] = "awaiting")
        ~> ( /\ stopping[TheBot] = "returned"
             /\ btask[TheBot] \in {"done", "cancelled"}
             /\ genKind[TheBot] = "none" )

(***************************************************************************)
(* C19: when a monitoring loop waits with nothing in its queue, outside    *)
(* its cooldown, and the last event on the bus is older than every silence *)
(* threshold, its timeout check starts a generator call if the draws are   *)
(* favourable, whoever sent the latest events.                             *)
(***************************************************************************)
C19_SilenceIsBroken ==
    \A b \in AllBots :
        ( /\ btask[b] = "wait"
          /\ is_monitoring[b]
          /\ ~cancelPending[b]
          /\ queue[message_queue[b]] = <<>>
          /\ Len(messages) > 0
          /\ 2 * (now - last_response_time[b]) >= current_cooldown[b]
          /\ now - messages[Len(messages)].timestamp > 10 )
        => \E thr \in 7..10 : SpontaneousKind(b, thr, TRUE, TRUE) # "none"

(***************************************************************************)
(* The bus under concurrent callers.                                       *)
(***************************************************************************)
InitBus ==
    /\ BusInit
    /\ CallersInit
    /\ BotInit
    /\ DebateIdle
    /\ maxlen = max_messages
    /\ ExtInit
    /\ put_raises = {}
    /\ web_server \in BOOLEAN
    /\ now = StartTime

NextBus ==
    \/ \E c \in Callers : AddMessage(c, c)
    \/ \E c \in Callers : AddMessageAcquire(c)
    \/ \E c \in Callers : SinkDone(c)
    \/ \E q \in QueueIds : Subscribe(q)
    \/ \E q \in QueueIds : Unsubscribe(q)

SpecBus == InitBus /\ [][NextBus]_vars

(***************************************************************************)
(* C1: under any interleaving of add_message calls by concurrent tasks,    *)
(* the message_ids of the stored events are strictly increasing in storage *)
(* order and consecutive: each stored event's id is its predecessor's + 1. *)
(***************************************************************************)
C1_IdsConsecutive ==
    \A i \in 1..(Len(messages) - 1) :
        messages[i + 1].message_id = messages[i].message_id + 1

\* two tasks were inside add_message at once and the window holds several events
C1_Witness ==
    /\ Len(messages) >= 2
    /\ \E c \in Callers : cpc[c] = "sink"
    /\ \E c \in Callers : cpc[c] = "waiting"

(***************************************************************************)
(* C2: a queue returned by subscribe() holds no event appended before the  *)
(* subscribe call; the i-th event it receives is the i-th event appended   *)
(* after the call (so: in order, each once), and while it is subscribed it *)
(* has received all of them.                                               *)
(***************************************************************************)
C2_SubscriptionDelivery ==
    \A q \in 1..nq :
        /\ Len(delivered[q]) <= Len(appended) - subAt[q]
        /\ \A i \in 1..Len(delivered[q]) : delivered[q][i] = appended[subAt[q] + i]
        /\ q \in RangeOf(subscribers) => Len(delivered[q]) = Len(appended) - subAt[q]

\* two live subscribers, both with deliveries, the later one created after
\* some event had been appended
C2_Witness ==
    /\ nq = 2
    /\ RangeOf(subscribers) = {1, 2}
    /\ subAt[2] > subAt[1]
    /\ Len(delivered[1]) >= 2
    /\ Len(delivered[2]) >= 1

(***************************************************************************)
(* C3: after n appends the stored window is the last min(n, capacity)      *)
(* appended events, in append order, each with the message_id it got when  *)
(* it was appended (the k-th append got id k); every add_message call that *)
(* reached the store stored its event (none failed for capacity).          *)
(***************************************************************************)
C3_WindowIsSuffix ==
    LET n == Len(appended)
        k == IF n < max_messages THEN n ELSE max_messages
    IN  /\ Len(messages) = k
        /\ \A i \in 1..k : messages[i] = appended[n - k + i]
        /\ \A i \in 1..n : appended[i].message_id = i
        /\ n = issued - Len(lockWaiters)

\* more appends than the capacity: the oldest have been evicted
C3_Witness ==
    /\ Len(appended) = max_messages + 1
    /\ Len(messages) = max_messages
    /\ messages[1].message_id = 2
    /\ messages[max_messages].message_id = max_messages + 1

(***************************************************************************)
(* C11: at most one add_message call is inside the section that assigns    *)
(* the id, stores the event and fans it out, up to the return of the sink: *)
(* the counter moves only while no call is inside, the step that moves it  *)
(* has put the event on every subscribed queue, and every queue has        *)
(* received its events in increasing id order.                             *)
(***************************************************************************)
C11_AppendsMutuallyExclusive ==
    /\ [](/\ Cardinality({c \in Callers : cpc[c] = "sink"}) <= 1
          /\ \A c \in Callers : cpc[c] = "sink" => lockHolder = c
          /\ \A q \in 1..nq : \A i \in 1..(Len(delivered[q]) - 1) :
                delivered[q][i].message_id < delivered[q][i + 1].message_id)
    /\ [][message_counter' # message_counter =>
            /\ lockHolder = NoOne
            /\ \A c \in Callers : cpc[c] # "sink"
            /\ \A q \in RangeOf(subscribers) :
                  /\ Len(delivered'[q]) = Len(delivered[q]) + 1
                  /\ delivered'[q][Len(delivered'[q])].message_id = message_counter']_vars

\* a call is held in the sink, a second one waits for the lock, and a
\* subscriber has received the events of two calls
C11_Witness ==
    /\ \E c \in Callers : cpc[c] = "sink"
    /\ \E c \in Callers : cpc[c] = "waiting"
    /\ \E q \in 1..nq : Len(delivered[q]) >= 2

(***************************************************************************)
(* C12: a queue that is no longer subscribed receives nothing more and     *)
(* stays unsubscribed; the step that removes a queue removes no other      *)
(* queue and delivers nothing; and every subscribed queue has received     *)
(* exactly the events appended since its subscription, also when the       *)
(* removal happens while an add_message call is held in the sink.          *)
(***************************************************************************)
C12_UnsubscribeDuringAppend ==
    /\ [][\A q \in 1..nq :
            q \notin RangeOf(subscribers) =>
                /\ delivered'[q] = delivered[q]
                /\ q \notin RangeOf(subscribers')]_vars
    /\ [][\A q \in 1..nq :
            (q \in RangeOf(subscribers) /\ q \notin RangeOf(subscribers')) =>
                /\ delivered'[q] = delivered[q]
                /\ \A p \in RangeOf(subscribers) \ {q} :
                      p \in RangeOf(subscribers') /\ delivered'[p] = delivered[p]]_vars
    /\ [](\A p \in RangeOf(subscribers) :
            delivered[p] = SubSeq(appended, subAt[p] + 1, Len(appended)))

\* queue 1 received the event of the call that is still held in the sink
\* and was unsubscribed since; queue 2 is subscribed and a second call waits
C12_Witness ==
    /\ \E c \in Callers : cpc[c] = "sink"
    /\ \E c \in Callers : cpc[c] = "waiting"
    /\ nq = 2
    /\ subscribers = <<2>>
    /\ delivered[1] # <<>>
    /\ delivered[1][Len(delivered[1])] = appended[Len(appended)]

(***************************************************************************)
(* The bus with queues whose put() raises: the owner of a queue may shut   *)
(* it down at any time.                                                    *)
(***************************************************************************)
QueueShutdown(q) ==
    /\ q \in 1..nq
    /\ q \notin put_raises
    /\ put_raises' = put_raises \cup {q}
    /\ UNCHANGED <<messages, maxlen, extVars, message_counter, subscribers, queue, nq,
                   web_server, lockHolder, lockWaiters, now>>
    /\ UNCHANGED <<callerVars, histVars, botVars, debateVars>>

NextBusFaulty ==
    \/ NextBus
    \/ \E q \in QueueIds : QueueShutdown(q)

SpecBusFaulty == InitBus /\ [][NextBusFaulty]_vars

(***************************************************************************)
(* C13: when the put() of a subscription raises, the add_message call      *)
(* still puts the event on every other subscribed queue, stores it as the  *)
(* newest event of the window, and returns (every call that got the lock   *)
(* has stored its event, none is left inside the section by an exception). *)
(***************************************************************************)
C13_FailedDeliverySkipsOneQueue ==
    /\ [][Len(appended') > Len(appended) =>
            LET m == appended'[Len(appended')]
            IN  /\ messages'[Len(messages')] = m
                /\ \A q \in RangeOf(subscribers) \ put_raises :
                      delivered'[q] = Append(delivered[q], m)
                /\ \A c \in Callers :
                      cpc'[c] # cpc[c] => cpc'[c] = (IF web_server THEN "sink" ELSE "idle")]_vars
    /\ [](Len(appended) = issued - Len(lockWaiters))

\* the first queue of the subscriber list raises, the second one has
\* received an event the first one did not get
C13_Witness ==
    /\ subscribers = <<1, 2>>
    /\ put_raises = {1}
    /\ delivered[2] # <<>>
    /\ Len(delivered[2]) > Len(delivered[1])
    /\ subAt[1] <= subAt[2]

(***************************************************************************)
(* The bus under the scheduling of the event loop: a task waiting for the  *)
(* released lock gets it.  Nothing obliges the sink to return.             *)
(***************************************************************************)
SpecBusFair ==
    /\ InitBus
    /\ [][NextBus]_vars
    /\ WF_vars(\E c \in Callers : AddMessageAcquire(c))

(***************************************************************************)
(* C14: an add_message call of another caller completes its append while   *)
(* one call waits on the sink (a call that waits for the lock always gets  *)
(* past it, whether or not the sink returns); and the event of the call    *)
(* that waits on the sink is stored and delivered already.                 *)
(***************************************************************************)
C14_SinkDoesNotBlockAppends ==
    /\ \A c \in Callers : (cpc[c] = "waiting") ~> (cpc[c] # "waiting")
    /\ [](\A c \in Callers :
            cpc[c] = "sink" =>
                /\ appended # <<>>
                /\ messages[Len(messages)] = appended[Len(appended)]
                /\ \A q \in RangeOf(subscribers) :
                      subAt[q] < Len(appended) =>
                          delivered[q][Len(delivered[q])] = appended[Len(appended)])

(***************************************************************************)
(* Moderator.run_debate and HumanClient.autonomous_participation_loop.     *)
(*                                                                         *)
(* run_debate runs without suspending between two of its sleeps and task   *)
(* awaits (add_message does not suspend while the lock is free and no web  *)
(* server is attached): the loops of the bots and of the humans, and the   *)
(* participants' response tasks, take steps only while it is suspended.    *)
(***************************************************************************)
PhaseOrder == <<"INTRODUCTION", "OPENING_STATEMENTS", "DISCUSSION",
                "CLOSING_STATEMENTS", "VOTING", "RESULTS", "FINISHED">>

PhaseRank(p) == CHOOSE i \in 1..Len(PhaseOrder) : PhaseOrder[i] = p

\* reversed(self.state.turn_order)
ReverseKept(sq) == sq

Reverse(sq) == [i \in 1..Len(sq) |-> sq[Len(sq) + 1 - i]]

IndexOf(sq, x) == CHOOSE i \in 1..Len(sq) : sq[i] = x

\* the positions at which run_debate is suspended: asyncio.sleep, the poll of
\* a structured turn, "await self.phase_task", "await self.monitoring_task"
\* inside stop_monitoring, "await task" in the cleanup; and after its end
SuspendPoints == {"intro", "turn_poll", "facilitate", "voting_wait",
                  "cleanup_await_bot", "cleanup_await_task", "returned", "raised"}

Suspended == mpc \in SuspendPoints

\* A loop waiting on a queue was made runnable when an event was put on the
\* queue, run_debate is made runnable later, by a timer or by the end of a
\* task it awaits: when run_debate resumes, the waiting loops have taken the
\* events put before.
LoopsCaughtUp ==
    \A b \in AllBots : btask[b] = "wait" => queue[message_queue[b]] = <<>>

\* _broadcast_message: add_message under the sender "moderator"
Broadcast(content) == BusPost("moderator", content) /\ UNCHANGED issued

NoPost == UNCHANGED <<busVars, histVars>>

\* what an orchestrator step that touches no bot and no human leaves alone
ModFrame == UNCHANGED <<callerVars, botVars, humanVars, modConfig, facilVars>>

\* _introduction_phase, up to its sleep
IntroductionPhase ==
    /\ mpc = "start"
    /\ phase' = "INTRODUCTION"
    /\ Broadcast("intro")
    /\ mpc' = "intro"
    /\ UNCHANGED <<current_speaker, warnings_issued, turn, todo, raisedExc,
                   error_reports, facilitated, discussion_turns, cancels>>
    /\ ModFrame

\* _opening_statements_phase, up to its first turn
OpeningStatementsPhase ==
    /\ mpc = "intro"
    /\ LoopsCaughtUp
    /\ phase' = "OPENING_STATEMENTS"
    /\ Broadcast("opening")
    /\ turn' = [kind |-> "opening", left |-> turn_order, resp |-> "none",
                warned |-> FALSE]
    /\ mpc' = "turn_next"
    /\ UNCHANGED <<current_speaker, warnings_issued, todo, raisedExc,
                   error_reports, facilitated, discussion_turns, cancels>>
    /\ ModFrame

\* _give_structured_turn, up to the first sleep of its polling loop
GiveStructuredTurn ==
    /\ mpc = "turn_next"
    /\ turn.left # <<>>
    /\ turn.kind = "response" => discussion_turns < MaxDiscussionTurns
    /\ discussion_turns' = IF turn.kind = "response" THEN discussion_turns + 1
                           ELSE discussion_turns
    /\ current_speaker' = Head(turn.left)
    /\ Broadcast("turn")
    /\ turn' = [turn EXCEPT !.resp = "pending", !.warned = FALSE]
    /\ mpc' = "turn_poll"
    /\ UNCHANGED <<phase, warnings_issued, todo, raisedExc, error_reports,
                   facilitated, cancels>>
    /\ ModFrame

\* the participant's get_response returns a text or "" (BotClient and
\* HumanClient catch every Exception inside get_response; a human that has
\* left returns "" at once)
TurnResponse(outcome) ==
    /\ mpc = "turn_poll"
    /\ turn.resp = "pending"
    /\ (outcome = "text" /\ current_speaker \in Humans) => is_active[current_speaker]
    /\ turn' = [turn EXCEPT !.resp = outcome]
    /\ UNCHANGED <<phase, mpc, current_speaker, warnings_issued, todo, raisedExc,
                   error_reports, facilitated, discussion_turns, cancels>>
    /\ NoPost
    /\ ModFrame

\* _send_warning: remaining <= warning_time, once per turn
TurnWarning ==
    /\ mpc = "turn_poll"
    /\ LoopsCaughtUp
    /\ turn.resp = "pending"
    /\ ~turn.warned
    /\ Broadcast("warning")
    /\ turn' = [turn EXCEPT !.warned = TRUE]
    /\ UNCHANGED <<phase, mpc, current_speaker, warnings_issued, todo, raisedExc,
                   error_reports, facilitated, discussion_turns, cancels>>
    /\ ModFrame

\* _handle_timeout: the participant's warning counter
HandleTimeoutEveryone(w, p) == [q \in DOMAIN w |-> w[q] + 1]

HandleTimeout(w, p) == [w EXCEPT ![p] = @ + 1]

\* remaining <= 0 with the response not done: response_task.cancel(), the
\* task is awaited (a bot's ends cancelled, a human's returns ""),
\* _handle_timeout, and the turn ends.  A statement's time limit exceeds
\* warning_time, so its warning was sent at an earlier poll; a turn of the
\* sequential discussion is given int(remaining) seconds, which can be 0.
TurnTimeout ==
    /\ mpc = "turn_poll"
    /\ LoopsCaughtUp
    /\ turn.resp = "pending"
    /\ turn.warned \/ turn.kind = "response"
    /\ cancels' = [cancels EXCEPT ![current_speaker] = @ + 1]
    /\ warnings_issued' = HandleTimeout(warnings_issued, current_speaker)
    /\ Broadcast("timeout")
    /\ current_speaker' = NoOne
    /\ turn' = [turn EXCEPT !.left = Tail(turn.left), !.resp = "none"]
    /\ mpc' = "turn_next"
    /\ UNCHANGED <<phase, todo, raisedExc, error_reports, facilitated, discussion_turns>>
    /\ ModFrame

\* a turn whose participant's exception leaves _give_structured_turn
TurnCollectEscapes ==
    /\ mpc = "turn_poll"
    /\ LoopsCaughtUp
    /\ turn.resp \in {"text", "empty", "raise"}
    /\ IF turn.resp = "text"
       THEN BusPost(current_speaker, "response") /\ UNCHANGED issued
       ELSE NoPost
    /\ current_speaker' = NoOne
    /\ IF turn.resp = "raise"
       THEN /\ turn' = NoTurn
            /\ mpc' = "except"
            /\ raisedExc' = TRUE
       ELSE /\ turn' = [turn EXCEPT !.left = Tail(turn.left), !.resp = "none"]
            /\ mpc' = "turn_next"
            /\ UNCHANGED raisedExc
    /\ UNCHANGED <<phase, warnings_issued, todo, error_reports,
                   facilitated, discussion_turns, cancels>>
    /\ ModFrame

\* the polling loop finds the response task done: a text goes to
\* _process_response, an exception of get_response is caught and reported
\* on the bus, and the turn ends
TurnCollect ==
    /\ mpc = "turn_poll"
    /\ LoopsCaughtUp
    /\ turn.resp \in {"text", "empty", "raise"}
    /\ IF turn.resp = "text"
       THEN BusPost(current_speaker, "response") /\ UNCHANGED issued
       ELSE IF turn.resp = "raise"
       THEN Broadcast("turn_error")
       ELSE NoPost
    /\ current_speaker' = NoOne
    /\ turn' = [turn EXCEPT !.left = Tail(turn.left), !.resp = "none"]
    /\ mpc' = "turn_next"
    /\ UNCHANGED <<phase, warnings_issued, todo, raisedExc, error_reports,
                   facilitated, discussion_turns, cancels>>
    /\ ModFrame

\* the tasks _autonomous_discussion_phase creates, in creation order: one
\* per bot, one per human, one for the moderator bot
LoopStarters ==
    SelectSeq(turn_order, LAMBDA x : x \in AllBots)
        \o SelectSeq(turn_order, LAMBDA x : x \in Humans)
        \o <<ModeratorBot>>

\* those of them that call chat_log.subscribe(): a human that is not active
\* returns before
LoopSubscribers == SelectSeq(LoopStarters, LAMBDA x : x \in AllBots \/ is_active[x])

\* _autonomous_discussion_phase up to "await self.phase_task", and each
\* created task up to its first suspension: the bots' monitoring loops wait
\* on their queues, the humans' loops wait in interface.get_input, the
\* facilitation loop sleeps
AutonomousDiscussionPhase ==
    LET m    == Message("moderator", "discussion", now, NextId(message_counter))
        subs == LoopSubscribers
        new  == [k \in 1..Len(subs) |-> nq + k]
        qOf(x) == nq + IndexOf(subs, x)
    IN  /\ mpc = "turn_next"
        /\ turn.left = <<>> /\ turn.kind = "opening"
        /\ autonomous_mode
        /\ lockHolder = NoOne /\ ~web_server
        /\ phase' = "DISCUSSION"
        /\ message_counter' = NextId(message_counter)
        /\ messages' = DequeAppend(messages, m, maxlen)
        /\ queue' = NotifySubscribers(queue, subscribers, m)
                        @@ [q \in RangeOf(new) |-> <<>>]
        /\ subscribers' = subscribers \o new
        /\ nq' = nq + Len(subs)
        /\ is_monitoring' = [b \in AllBots |->
                                IF b \in RangeOf(subs) THEN TRUE ELSE is_monitoring[b]]
        /\ btask' = [b \in AllBots |-> IF b \in RangeOf(subs) THEN "wait" ELSE btask[b]]
        /\ message_queue' = [b \in AllBots |->
                                IF b \in RangeOf(subs) THEN qOf(b) ELSE message_queue[b]]
        /\ htask' = [h \in Humans |->
                        IF h \in RangeOf(subs) THEN "input"
                        ELSE IF h \in RangeOf(LoopStarters) THEN "done"
                        ELSE htask[h]]
        /\ hqueue' = [h \in Humans |-> IF h \in RangeOf(subs) THEN qOf(h) ELSE hqueue[h]]
        /\ turn' = NoTurn
        /\ mpc' = "facilitate"
        /\ UNCHANGED <<maxlen, extVars, put_raises, web_server, lockHolder, lockWaiters, now, histVars>>
        /\ UNCHANGED <<cancelPending, stopping, last_response_time, total_responses,
                       current_cooldown, genKind, posts, attnVars>>
        /\ UNCHANGED <<is_active, hcancel, hposted>>
        /\ UNCHANGED <<current_speaker, warnings_issued, todo, raisedExc, error_reports,
                       facilitated, discussion_turns, cancels, modConfig, facilVars, callerVars>>

\* _facilitate_autonomous_discussion: a silence prompt (_provide_simple_prompt)
FacilitatePrompt ==
    /\ mpc = "facilitate"
    /\ LoopsCaughtUp
    /\ facilitated < MaxFacilitation
    /\ Broadcast("prompt")
    /\ facilitated' = facilitated + 1
    /\ UNCHANGED <<phase, mpc, current_speaker, warnings_issued, turn, todo,
                   raisedExc, error_reports, discussion_turns, cancels>>
    /\ ModFrame

\* _facilitate_autonomous_discussion: a time announcement (_provide_time_updates)
FacilitateTimeUpdate ==
    /\ mpc = "facilitate"
    /\ LoopsCaughtUp
    /\ facilitated < MaxFacilitation
    /\ Broadcast("time_update")
    /\ facilitated' = facilitated + 1
    /\ UNCHANGED <<phase, mpc, current_speaker, warnings_issued, turn, todo,
                   raisedExc, error_reports, discussion_turns, cancels>>
    /\ ModFrame

\* the time budget has expired: phase_task ends and
\* _autonomous_discussion_phase announces the end of the discussion
DiscussionComplete ==
    /\ mpc = "facilitate"
    /\ LoopsCaughtUp
    /\ Broadcast("discussion_complete")
    /\ mpc' = "closing"
    /\ UNCHANGED <<phase, current_speaker, warnings_issued, turn, todo, raisedExc,
                   error_reports, facilitated, discussion_turns, cancels>>
    /\ ModFrame

\* _traditional_discussion_phase, up to its first turn
TraditionalDiscussionPhase ==
    /\ mpc = "turn_next"
    /\ turn.left = <<>> /\ turn.kind = "opening"
    /\ ~autonomous_mode
    /\ phase' = "DISCUSSION"
    /\ Broadcast("discussion")
    /\ turn' = [kind |-> "response", left |-> turn_order, resp |-> "none",
                warned |-> FALSE]
    /\ UNCHANGED <<mpc, current_speaker, warnings_issued, todo, raisedExc,
                   error_reports, facilitated, discussion_turns, cancels>>
    /\ ModFrame

\* "while time.time() - start_time < total_time": another round of turns
TraditionalNextRound ==
    /\ mpc = "turn_next"
    /\ turn.left = <<>> /\ turn.kind = "response"
    /\ discussion_turns < MaxDiscussionTurns
    /\ turn' = [turn EXCEPT !.left = turn_order]
    /\ UNCHANGED <<phase, mpc, current_speaker, warnings_issued, todo, raisedExc,
                   error_reports, facilitated, discussion_turns, cancels>>
    /\ NoPost
    /\ ModFrame

\* the time budget has expired, after at least one turn of the discussion
TraditionalComplete ==
    /\ mpc = "turn_next"
    /\ turn.kind = "response"
    /\ discussion_turns >= 1
    /\ Broadcast("discussion_complete")
    /\ turn' = NoTurn
    /\ mpc' = "closing"
    /\ UNCHANGED <<phase, current_speaker, warnings_issued, todo, raisedExc,
                   error_reports, facilitated, discussion_turns, cancels>>
    /\ ModFrame

\* _closing_statements_phase, up to its first turn
ClosingStatementsPhase ==
    /\ mpc = "closing"
    /\ phase' = "CLOSING_STATEMENTS"
    /\ Broadcast("closing")
    /\ turn' = [kind |-> "closing", left |-> Reverse(turn_order), resp |-> "none",
                warned |-> FALSE]
    /\ mpc' = "turn_next"
    /\ UNCHANGED <<current_speaker, warnings_issued, todo, raisedExc,
                   error_reports, facilitated, discussion_turns, cancels>>
    /\ ModFrame

\* _voting_phase, up to its sleep; with voting disabled it returns {}
VotingPhaseOnlyWhenEnabled ==
    /\ mpc = "turn_next"
    /\ turn.left = <<>> /\ turn.kind = "closing"
    /\ phase' = IF voting_enabled THEN "VOTING" ELSE phase
    /\ Broadcast(IF voting_enabled THEN "voting" ELSE "voting_disabled")
    /\ turn' = NoTurn
    /\ mpc' = IF voting_enabled THEN "voting_wait" ELSE "results"
    /\ UNCHANGED <<current_speaker, warnings_issued, todo, raisedExc,
                   error_reports, facilitated, discussion_turns, cancels>>
    /\ ModFrame

VotingPhase ==
    /\ mpc = "turn_next"
    /\ turn.left = <<>> /\ turn.kind = "closing"
    /\ phase' = "VOTING"
    /\ Broadcast(IF voting_enabled THEN "voting" ELSE "voting_disabled")
    /\ turn' = NoTurn
    /\ mpc' = IF voting_enabled THEN "voting_wait" ELSE "results"
    /\ UNCHANGED <<current_speaker, warnings_issued, todo, raisedExc,
                   error_reports, facilitated, discussion_turns, cancels>>
    /\ ModFrame

\* the voting period has passed: end_voting
VotingEnd ==
    /\ mpc = "voting_wait"
    /\ LoopsCaughtUp
    /\ mpc' = "results"
    /\ UNCHANGED <<phase, current_speaker, warnings_issued, turn, todo, raisedExc,
                   error_reports, facilitated, discussion_turns, cancels>>
    /\ NoPost
    /\ ModFrame

\* _results_phase: the results announcement.  With voting disabled the
\* results are {} and the "concluded without voting" text is broadcast.  With
\* voting enabled they are the VotingResults dataclass end_voting returned,
\* which is true and has no get(): voting_results.get('winner') raises
\* AttributeError into the try block of run_debate.
ResultsPhase ==
    /\ mpc = "results"
    /\ phase' = "RESULTS"
    /\ IF voting_enabled
       THEN /\ NoPost
            /\ mpc' = "except"
            /\ raisedExc' = TRUE
       ELSE /\ Broadcast("results")
            /\ mpc' = "results_stats"
            /\ UNCHANGED raisedExc
    /\ UNCHANGED <<current_speaker, warnings_issued, turn, todo,
                   error_reports, facilitated, discussion_turns, cancels>>
    /\ ModFrame

\* _results_phase: the participation statistics, then the closing thanks
ResultsStatistics ==
    /\ mpc \in {"results_stats", "results_thanks"}
    /\ Broadcast(IF mpc = "results_stats" THEN "statistics" ELSE "thanks")
    /\ mpc' = IF mpc = "results_stats" THEN "results_thanks" ELSE "finally"
    /\ UNCHANGED <<phase, current_speaker, warnings_issued, turn, todo, raisedExc,
                   error_reports, facilitated, discussion_turns, cancels>>
    /\ ModFrame

\* the positions at which an exception reaches the try block of run_debate
\* from something a phase awaits: the sleep of the introduction, phase_task
\* (the facilitation loop), the voting system.  (Inside a structured turn the
\* turn's own handler catches it.)
TryPoints == {"intro", "facilitate", "voting_wait"}

\* a phase raises an exception
PhaseRaises ==
    /\ mpc \in TryPoints
    /\ LoopsCaughtUp
    /\ mpc' = "except"
    /\ raisedExc' = TRUE
    /\ current_speaker' = NoOne
    /\ turn' = NoTurn
    /\ UNCHANGED <<phase, warnings_issued, todo, error_reports, facilitated,
                   discussion_turns, cancels>>
    /\ NoPost
    /\ ModFrame

\* "except Exception": the error message is broadcast and the exception re-raised
DebateErrorSilent ==
    /\ mpc = "except"
    /\ mpc' = "finally"
    /\ UNCHANGED <<phase, current_speaker, warnings_issued, turn, todo, raisedExc,
                   error_reports, facilitated, discussion_turns, cancels>>
    /\ NoPost
    /\ ModFrame

DebateError ==
    /\ mpc = "except"
    /\ Broadcast("debate_error")
    /\ error_reports' = error_reports + 1
    /\ mpc' = "finally"
    /\ UNCHANGED <<phase, current_speaker, warnings_issued, turn, todo, raisedExc,
                   facilitated, discussion_turns, cancels>>
    /\ ModFrame

\* "finally": in autonomous mode _cleanup_autonomous_tasks begins with the
\* participants that have stop_monitoring, then the moderator bot
FinallyBegin ==
    /\ mpc = "finally"
    /\ IF autonomous_mode
       THEN /\ todo' = SelectSeq(turn_order, LAMBDA x : x \in AllBots) \o <<ModeratorBot>>
            /\ mpc' = "cleanup_bots"
       ELSE /\ todo' = <<>>
            /\ mpc' = "finish"
    /\ UNCHANGED <<phase, current_speaker, warnings_issued, turn, raisedExc,
                   error_reports, facilitated, discussion_turns, cancels>>
    /\ NoPost
    /\ ModFrame

\* _cleanup_autonomous_tasks: stop_monitoring of the next bot, up to its
\* "await self.monitoring_task" or, with no running task, to its return
CleanupStopBot ==
    /\ mpc = "cleanup_bots"
    /\ todo # <<>>
    /\ BotStopBegin(Head(todo))
    /\ IF btask[Head(todo)] \in {"wait", "gen"}
       THEN /\ mpc' = "cleanup_await_bot"
            /\ UNCHANGED todo
       ELSE /\ mpc' = "cleanup_bots"
            /\ todo' = Tail(todo)
    /\ UNCHANGED <<phase, current_speaker, warnings_issued, turn, raisedExc,
                   error_reports, facilitated, discussion_turns, cancels, modConfig, facilVars>>
    /\ UNCHANGED <<callerVars, humanVars>>

\* the bot's task has ended: stop_monitoring unsubscribes and returns
CleanupBotStopped ==
    /\ mpc = "cleanup_await_bot"
    /\ LoopsCaughtUp
    /\ BotStopFinish(Head(todo))
    /\ todo' = Tail(todo)
    /\ mpc' = "cleanup_bots"
    /\ UNCHANGED <<phase, current_speaker, warnings_issued, turn, raisedExc,
                   error_reports, facilitated, discussion_turns, cancels, modConfig, facilVars>>
    /\ UNCHANGED <<callerVars, humanVars>>

\* _cleanup_autonomous_tasks: "for task in self.autonomous_tasks"; the tasks
\* that started the bots have ended, the humans' loop tasks are left
CleanupTasksBegin ==
    /\ mpc = "cleanup_bots"
    /\ todo = <<>>
    /\ todo' = SelectSeq(turn_order, LAMBDA x : x \in Humans /\ htask[x] # "none")
    /\ mpc' = "cleanup_tasks"
    /\ UNCHANGED <<phase, current_speaker, warnings_issued, turn, raisedExc,
                   error_reports, facilitated, discussion_turns, cancels>>
    /\ NoPost
    /\ ModFrame

\* "if not task.done(): task.cancel(); await task"
CleanupCancelTask ==
    /\ mpc = "cleanup_tasks"
    /\ todo # <<>>
    /\ IF htask[Head(todo)] \in {"done", "cancelled"}
       THEN /\ todo' = Tail(todo)
            /\ UNCHANGED <<mpc, hcancel>>
       ELSE /\ hcancel' = [hcancel EXCEPT ![Head(todo)] = TRUE]
            /\ mpc' = "cleanup_await_task"
            /\ UNCHANGED todo
    /\ UNCHANGED <<phase, current_speaker, warnings_issued, turn, raisedExc,
                   error_reports, facilitated, discussion_turns, cancels, modConfig, facilVars>>
    /\ UNCHANGED <<is_active, htask, hqueue, hposted>>
    /\ UNCHANGED <<callerVars, botVars>>
    /\ NoPost

\* the awaited task has ended
CleanupTaskEnded ==
    /\ mpc = "cleanup_await_task"
    /\ LoopsCaughtUp
    /\ htask[Head(todo)] \in {"done", "cancelled"}
    /\ todo' = Tail(todo)
    /\ mpc' = "cleanup_tasks"
    /\ UNCHANGED <<phase, current_speaker, warnings_issued, turn, raisedExc,
                   error_reports, facilitated, discussion_turns, cancels>>
    /\ NoPost
    /\ ModFrame

\* the end of _cleanup_autonomous_tasks (phase_task has ended), or no
\* cleanup: "self.state.phase = DebatePhase.FINISHED"
Finish ==
    /\ \/ mpc = "finish"
       \/ mpc = "cleanup_tasks" /\ todo = <<>>
    /\ phase' = "FINISHED"
    /\ mpc' = IF raisedExc THEN "raised" ELSE "returned"
    /\ UNCHANGED <<current_speaker, warnings_issued, turn, todo, raisedExc,
                   error_reports, facilitated, discussion_turns, cancels>>
    /\ NoPost
    /\ ModFrame

\* the loop reads a response from interface.get_input and appends it under
\* the human's name (the human contributes while the discussion lasts)
HumanSpeaks(h) ==
    /\ htask[h] = "input"
    /\ ~hcancel[h]
    /\ hposted < MaxHumanPosts
    /\ phase = "DISCUSSION"
    /\ BusPost(h, "human")
    /\ hposted' = hposted + 1
    /\ UNCHANGED <<issued, is_active, htask, hqueue, hcancel>>
    /\ UNCHANGED <<callerVars, botVars, modVars>>

\* the loop reads "quit": it leaves the while loop, unsubscribes its queue
\* and returns (the queue was a local of the loop)
HumanQuits(h) ==
    /\ htask[h] = "input"
    /\ ~hcancel[h]
    /\ is_active' = [is_active EXCEPT ![h] = FALSE]
    /\ htask' = [htask EXCEPT ![h] = "done"]
    /\ subscribers' = IF hqueue[h] \in RangeOf(subscribers)
                      THEN ListRemove(subscribers, hqueue[h]) ELSE subscribers
    /\ queue' = [queue EXCEPT ![hqueue[h]] = <<>>]
    /\ UNCHANGED <<messages, maxlen, extVars, put_raises, message_counter, nq, web_server,
                   lockHolder, lockWaiters, now, histVars>>
    /\ UNCHANGED <<hqueue, hcancel, hposted>>
    /\ UNCHANGED <<callerVars, botVars, modVars>>

\* The CancelledError of task.cancel() is raised inside
\* CLIInterface.get_input, which catches it and returns "": the loop takes
\* the "" for an input timeout and calls get_input again.
HumanCancelDelivered(h) ==
    /\ hcancel[h]
    /\ htask[h] = "input"
    /\ hcancel' = [hcancel EXCEPT ![h] = FALSE]
    /\ UNCHANGED <<is_active, htask, hqueue, hposted>>
    /\ UNCHANGED <<busVars, callerVars, histVars, botVars, modVars>>

(***************************************************************************)
(* A debate: one run of run_debate, sequential with a bot and a human, or  *)
(* autonomous with a human and the moderator bot.                          *)
(***************************************************************************)
InitDebate ==
    /\ BusInit
    /\ CallersInit
    /\ BotInit
    /\ HumanInit
    /\ ModeratorInit
    /\ \/ autonomous_mode = FALSE /\ turn_order = <<"Socrates", "Human_1">>
       \/ autonomous_mode = TRUE /\ turn_order = <<"Human_1">>
    /\ voting_enabled \in BOOLEAN
    /\ maxlen = max_messages
    /\ ExtInit
    /\ put_raises = {}
    /\ web_server = FALSE
    /\ now = StartTime

LoopReceive ==
    /\ Suspended
    /\ \E b \in AllBots, accept \in BOOLEAN :
          BotReceive(b, accept) /\ UNCHANGED <<callerVars, debateVars>>

LoopGenReturn ==
    /\ Suspended
    /\ \E b \in AllBots, outcome \in {"text", "empty", "raise"} :
          BotGenReturn(b, outcome) /\ UNCHANGED <<callerVars, debateVars>>

LoopCancelled ==
    /\ Suspended
    /\ \E b \in AllBots : BotCancelled(b) /\ UNCHANGED <<callerVars, debateVars>>

ParticipantResponds ==
    \E outcome \in {"text", "empty"} : TurnResponse(outcome)

HumanPosts ==
    /\ Suspended
    /\ \E h \in Humans : HumanSpeaks(h)

HumanLeaves ==
    /\ Suspended
    /\ \E h \in Humans : HumanQuits(h)

HumanLoopCancel ==
    /\ Suspended
    /\ \E h \in Humans : HumanCancelDelivered(h)

\* every step of a session but the human's posts from the participation
\* loop.  (A wait_for timeout of a monitoring loop finds no silence to break
\* in a session whose clock is not advanced: it leaves the loop where it is.)
SessionStep ==
    \/ IntroductionPhase
    \/ OpeningStatementsPhase
    \/ GiveStructuredTurn
    \/ ParticipantResponds
    \/ TurnWarning
    \/ TurnTimeout
    \/ TurnCollect
    \/ AutonomousDiscussionPhase
    \/ FacilitatePrompt
    \/ FacilitateTimeUpdate
    \/ DiscussionComplete
    \/ TraditionalDiscussionPhase
    \/ TraditionalNextRound
    \/ TraditionalComplete
    \/ ClosingStatementsPhase
    \/ VotingPhase
    \/ VotingEnd
    \/ ResultsPhase
    \/ ResultsStatistics
    \/ PhaseRaises
    \/ DebateError
    \/ FinallyBegin
    \/ CleanupStopBot
    \/ CleanupBotStopped
    \/ CleanupTasksBegin
    \/ CleanupCancelTask
    \/ CleanupTaskEnded
    \/ Finish
    \/ LoopReceive
    \/ LoopGenReturn
    \/ LoopCancelled
    \/ HumanLeaves
    \/ HumanLoopCancel

NextDebate ==
    \/ SessionStep
    \/ HumanPosts

\* the steps of run_debate that do not wait for a participant or a human
OrchestratorStep ==
    \/ IntroductionPhase
    \/ OpeningStatementsPhase
    \/ GiveStructuredTurn
    \/ TurnWarning
    \/ TurnTimeout
    \/ TurnCollect
    \/ AutonomousDiscussionPhase
    \/ FacilitatePrompt
    \/ FacilitateTimeUpdate
    \/ DiscussionComplete
    \/ TraditionalDiscussionPhase
    \/ TraditionalNextRound
    \/ TraditionalComplete
    \/ ClosingStatementsPhase
    \/ VotingPhase
    \/ VotingEnd
    \/ ResultsPhase
    \/ ResultsStatistics
    \/ DebateError
    \/ FinallyBegin
    \/ CleanupStopBot
    \/ CleanupBotStopped
    \/ CleanupTasksBegin
    \/ CleanupCancelTask
    \/ CleanupTaskEnded
    \/ Finish

SpecDebate == InitDebate /\ [][NextDebate]_vars

\* The session under the scheduling of the event loop: run_debate goes on
\* when it can, a loop that holds an event or a cancellation processes it,
\* a generator call returns.  Nothing obliges a participant to answer in a
\* turn, a phase to raise, or a human to type.
SpecDebateFair ==
    /\ InitDebate
    /\ [][SessionStep]_vars
    /\ WF_vars(OrchestratorStep)
    /\ WF_vars(LoopReceive)
    /\ WF_vars(LoopGenReturn)
    /\ WF_vars(LoopCancelled)
    /\ WF_vars(HumanLoopCancel)

BotLoopRunning(b) == btask[b] \in {"wait", "gen"}
HumanLoopRunning(h) == htask[h] \in {"input", "backoff"}

\* a bot after stop_monitoring, a human's loop after its end
LoopsStopped ==
    /\ \A b \in AllBots :
          /\ ~is_monitoring[b]
          /\ ~BotLoopRunning(b)
          /\ message_queue[b] \notin RangeOf(subscribers)
    /\ \A h \in Humans : ~HumanLoopRunning(h)

(***************************************************************************)
(* C4: in autonomous mode no monitoring loop (of a bot, of a human, of the *)
(* moderator bot) is still running in a state whose phase is later than    *)
(* DISCUSSION.                                                             *)
(***************************************************************************)
C4_LoopsStoppedBeforeClosing ==
    (autonomous_mode /\ PhaseRank(phase) > PhaseRank("DISCUSSION")) =>
        /\ \A b \in AllBots : ~BotLoopRunning(b)
        /\ \A h \in Humans : ~HumanLoopRunning(h)

(***************************************************************************)
(* C6: when an exception has escaped a phase in autonomous mode, one error *)
(* event has been appended before any loop is stopped or cancelled, and in *)
(* phase FINISHED every loop is stopped and exactly one error event was    *)
(* appended.                                                               *)
(***************************************************************************)
C6_ErrorReportedThenLoopsStopped ==
    (autonomous_mode /\ raisedExc) =>
        /\ ((\E b \in AllBots : stopping[b] # "none") \/ (\E h \in Humans : hcancel[h]))
              => error_reports = 1
        /\ phase = "FINISHED" => (LoopsStopped /\ error_reports = 1)

\* the discussion raised while the moderator bot's loop and the human's loop
\* were running; the bot's loop was cancelled by the cleanup
C6_Witness ==
    /\ autonomous_mode /\ raisedExc
    /\ phase = "FINISHED"
    /\ stopping[ModeratorBot] = "returned"
    /\ btask[ModeratorBot] = "cancelled"
    /\ \E h \in Humans : htask[h] = "done"

(***************************************************************************)
(* C7: every run of run_debate eventually reaches phase FINISHED.          *)
(***************************************************************************)
C7_DebateFinishes == <>(phase = "FINISHED")

(***************************************************************************)
(* C9: a response task is cancelled only in the turn of the current        *)
(* speaker while its response is pending, one task at a time, and in every *)
(* step each participant's warnings_issued grows by exactly the number of  *)
(* its response tasks cancelled in that step: one for the speaker timed    *)
(* out, nothing for anyone else.                                           *)
(***************************************************************************)
C9_TimeoutWarnsTheSpeakerOnce ==
    [][\A p \in Participants :
          /\ cancels'[p] # cancels[p] =>
                /\ p = current_speaker
                /\ turn.resp = "pending"
                /\ cancels'[p] = cancels[p] + 1
          /\ warnings_issued'[p] - warnings_issued[p] = cancels'[p] - cancels[p]]_vars

\* the human timed out in two turns, the bot in none
C9_Witness ==
    /\ turn_order = <<"Socrates", "Human_1">>
    /\ cancels["Human_1"] = 2
    /\ warnings_issued["Human_1"] = 2
    /\ warnings_issued["Socrates"] = 0
    /\ cancels["Socrates"] = 0

(***************************************************************************)
(* C10: state.phase changes only to the next phase of the order            *)
(* INTRODUCTION .. FINISHED, or to FINISHED while run_debate propagates    *)
(* the exception of a phase.                                               *)
(***************************************************************************)
C10_PhaseMovesForward ==
    [][phase' # phase =>
          \/ PhaseRank(phase') = PhaseRank(phase) + 1
          \/ raisedExc /\ phase' = "FINISHED"]_vars

\* a session that ran every phase with voting disabled and returned
C10_Witness ==
    /\ phase = "FINISHED"
    /\ mpc = "returned"
    /\ ~voting_enabled

(***************************************************************************)
(* A sequential session whose participants' get_response can raise (a      *)
(* participant other than BotClient and HumanClient, which catch every     *)
(* Exception themselves).                                                  *)
(***************************************************************************)
InitTurns == InitDebate /\ ~autonomous_mode

ParticipantRaises == TurnResponse("raise")

NextTurns ==
    \/ IntroductionPhase
    \/ OpeningStatementsPhase
    \/ GiveStructuredTurn
    \/ ParticipantResponds
    \/ ParticipantRaises
    \/ TurnWarning
    \/ TurnTimeout
    \/ TurnCollect
    \/ TraditionalDiscussionPhase
    \/ TraditionalNextRound
    \/ TraditionalComplete
    \/ ClosingStatementsPhase
    \/ VotingPhase
    \/ VotingEnd
    \/ ResultsPhase
    \/ ResultsStatistics
    \/ PhaseRaises
    \/ DebateError
    \/ FinallyBegin
    \/ Finish

SpecTurns == InitTurns /\ [][NextTurns]_vars

(***************************************************************************)
(* C23: when the orchestrator finds that the get_response of the turn's    *)
(* participant has raised, the exception stays inside the turn: no         *)
(* exception reaches run_debate, state.phase is unchanged, current_speaker *)
(* is reset, and the orchestrator is at the next participant's turn.       *)
(***************************************************************************)
C23_TurnErrorStaysInTurn ==
    [][(mpc = "turn_poll" /\ turn.resp = "raise" /\ mpc' # mpc) =>
          /\ phase' = phase
          /\ current_speaker' = NoOne
          /\ raisedExc' = raisedExc
          /\ error_reports' = error_reports
          /\ mpc' = "turn_next"
          /\ turn'.left = Tail(turn.left)]_vars

\* the turn of the participant after the one whose get_response raised
C23_Witness ==
    /\ Len(messages) = 2
    /\ messages[1].content = "turn_error"
    /\ messages[2].content = "turn"
    /\ current_speaker = "Human_1"
    /\ ~raisedExc

C22_FullRunSucceeds ==
    (voting_enabled /\ phase = "RESULTS") => (~raisedExc /\ error_reports = 0)

(***************************************************************************)
(* The facilitation loop of a timed autonomous discussion.  The discussion *)
(* starts at StartTime with DiscussionSeconds to run; one round of the     *)
(* loop is its 15 second sleep, whatever its awaits take beyond that, and  *)
(* the checks that follow.  Other participants post in between.            *)
(***************************************************************************)
\* config.get('silence_timeout', 60)
silence_timeout == 60

\* _provide_time_updates(remaining): the announcement it broadcasts
TimeUpdate(remaining) ==
    IF 299 < remaining /\ remaining <= 301 THEN "five_minutes"
    ELSE IF 119 < remaining /\ remaining <= 121 THEN "two_minutes"
    ELSE IF 59 < remaining /\ remaining <= 61 THEN "final_minute"
    ELSE "none"

\* _autonomous_discussion_phase has announced the discussion, set
\* last_activity_time and start_time, and created the facilitation task
DiscussionStarted ==
    /\ subscribers = <<>>
    /\ queue = <<>>
    /\ nq = 0
    /\ lockHolder = NoOne
    /\ lockWaiters = <<>>
    /\ appended = <<>>
    /\ delivered = <<>>
    /\ subAt = <<>>
    /\ issued = 0
    /\ CallersInit
    /\ BotInit
    /\ HumanInit
    /\ phase = "DISCUSSION"
    /\ mpc = "facilitate"
    /\ current_speaker = NoOne
    /\ warnings_issued = [p \in Participants |-> 0]
    /\ TimingInit
    /\ turn = NoTurn
    /\ todo = <<>>
    /\ raisedExc = FALSE
    /\ error_reports = 0
    /\ facilitated = 0
    /\ discussion_turns = 0
    /\ cancels = [p \in Participants |-> 0]
    /\ autonomous_mode = TRUE
    /\ voting_enabled = TRUE
    /\ turn_order = <<"Human_1">>
    /\ last_activity_time = StartTime
    /\ last_moderator_prompt = 0
    /\ ExtInit
    /\ put_raises = {}
    /\ web_server = FALSE
    /\ now = StartTime

InitFacilitate ==
    /\ DiscussionStarted
    /\ messages = << Message("moderator", "discussion", StartTime, 1) >>
    /\ message_counter = 1
    /\ last_message_count = 1
    /\ maxlen = DefaultMaxMessages

\* one round of "while time.time() - start_time < total_time": the sleep
\* returns lag seconds late, new activity is noted, a prompt is broadcast
\* after a long silence, then _provide_time_updates(remaining)
FacilitateRound(lag) ==
    LET t         == now + 15 + lag
        remaining == DiscussionSeconds - (t - StartTime)
        grew      == Len(messages) > last_message_count
        activity  == IF grew THEN t ELSE last_activity_time
        prompt    == t - activity > silence_timeout /\ t - last_moderator_prompt > 45
        said      == (IF prompt THEN <<"prompt">> ELSE <<>>)
                     \o (IF TimeUpdate(remaining) # "none"
                         THEN <<TimeUpdate(remaining)>> ELSE <<>>)
        msg(k)    == Message("moderator", said[k], t, message_counter + k)
    IN  /\ mpc = "facilitate"
        /\ now - StartTime < DiscussionSeconds
        /\ lockHolder = NoOne /\ ~web_server
        /\ now' = t
        /\ last_message_count' = IF grew THEN Len(messages) ELSE last_message_count
        /\ last_activity_time' = activity
        /\ last_moderator_prompt' = IF prompt THEN t ELSE last_moderator_prompt
        /\ message_counter' = message_counter + Len(said)
        /\ messages' =
               IF Len(said) = 0 THEN messages
               ELSE IF Len(said) = 1 THEN DequeAppend(messages, msg(1), maxlen)
               ELSE DequeAppend(DequeAppend(messages, msg(1), maxlen), msg(2), maxlen)
        /\ queue' =
               IF Len(said) = 0 THEN queue
               ELSE IF Len(said) = 1 THEN NotifySubscribers(queue, subscribers, msg(1))
               ELSE NotifySubscribers(NotifySubscribers(queue, subscribers, msg(1)),
                                      subscribers, msg(2))
        /\ UNCHANGED <<maxlen, extVars, put_raises, subscribers, nq, web_server, lockHolder,
                       lockWaiters, histVars, callerVars, botVars, humanVars>>
        /\ UNCHANGED <<phase, mpc, current_speaker, warnings_issued, turn, todo, raisedExc,
                       error_reports, facilitated, discussion_turns, cancels, modConfig>>

FacilitateRoundLate == \E lag \in 0..MaxLag : FacilitateRound(lag)

\* the loop condition fails: phase_task ends and _autonomous_discussion_phase
\* announces the end of the discussion
TimedDiscussionComplete ==
    /\ mpc = "facilitate"
    /\ now - StartTime >= DiscussionSeconds
    /\ Broadcast("discussion_complete")
    /\ mpc' = "closing"
    /\ UNCHANGED <<phase, current_speaker, warnings_issued, turn, todo, raisedExc,
                   error_reports, facilitated, discussion_turns, cancels>>
    /\ ModFrame

NextFacilitate ==
    \/ FacilitateRoundLate
    \/ OtherPost
    \/ TimedDiscussionComplete

SpecFacilitate == InitFacilitate /\ [][NextFacilitate]_vars

Announcements(content) ==
    Cardinality({i \in 1..Len(messages) : messages[i].content = content})

(***************************************************************************)
(* C20: each of the announcements "5 minutes", "2 minutes" and "final      *)
(* minute" is on the bus at most once, and exactly once when the           *)
(* facilitation loop has run out the time budget, for any timing of the    *)
(* loop's rounds.                                                          *)
(***************************************************************************)
C20_MilestonesAnnouncedOnce ==
    \A content \in {"five_minutes", "two_minutes", "final_minute"} :
        /\ Announcements(content) <= 1
        /\ mpc = "closing" => Announcements(content) = 1

(***************************************************************************)
(* Transcripts: save_transcript writes the window to a JSON file, clear    *)
(* empties the bus, load_transcript reads the file back.  A JSON object is *)
(* the sequence of its <<key, value>> members.                             *)
(***************************************************************************)
\* Message.to_dict: asdict(self), as json.dump writes it
to_dict(m) ==
    << <<"sender", m.sender>>, <<"content", m.content>>,
       <<"timestamp", m.timestamp>>, <<"message_id", m.message_id>> >>

\* data[key] of a loaded JSON object
Member(data, key) ==
    data[CHOOSE i \in 1..Len(data) : data[i][1] = key][2]

\* Message.from_dict: cls(**data)
from_dict(data) ==
    Message(Member(data, "sender"), Member(data, "content"),
            Member(data, "timestamp"), Member(data, "message_id"))

RECURSIVE LoadedMessages(_, _, _)
\* the loop of load_transcript over data['messages']: each message is
\* appended to the (cleared) deque
LoadedMessages(d, docs, cap) ==
    IF docs = <<>> THEN d
    ELSE LoadedMessages(DequeAppend(d, from_dict(Head(docs)), cap), Tail(docs), cap)

\* the counter is left at zero by the loading loop
LoadedCounterKept(counter, docs) == counter

RECURSIVE LoadedCounter(_, _)
\* message_counter = max(message_counter, message.message_id) per message
LoadedCounter(counter, docs) ==
    IF docs = <<>> THEN counter
    ELSE LoadedCounter(Max2(counter, Member(Head(docs), "message_id")), Tail(docs))

BusFrame ==
    UNCHANGED <<maxlen, restartVars, timingVars, put_raises, subscribers, queue, nq, web_server, lockHolder,
                lockWaiters, now, callerVars, histVars, botVars, debateVars>>

\* save_transcript(filename, "json"): no await, the window is written as it is
SaveTranscript ==
    /\ transcript' = [written |-> TRUE,
                      messages |-> [i \in 1..Len(messages) |-> to_dict(messages[i])]]
    /\ transcribed' = messages
    /\ UNCHANGED <<messages, message_counter, callVars, profileVars>>
    /\ BusFrame

\* clear(): not under the lock
ClearLog ==
    /\ messages' = <<>>
    /\ message_counter' = 0
    /\ UNCHANGED extVars
    /\ BusFrame

\* load_transcript(filename) of an existing file; its body runs under the
\* lock without suspending
LoadTranscript ==
    /\ transcript.written
    /\ lockHolder = NoOne /\ lockWaiters = <<>>
    /\ messages' = LoadedMessages(<<>>, transcript.messages, maxlen)
    /\ message_counter' = LoadedCounter(0, transcript.messages)
    /\ UNCHANGED extVars
    /\ BusFrame

NextTranscript ==
    \/ \E c \in Callers : AddMessage(c, c)
    \/ \E c \in Callers : AddMessageAcquire(c)
    \/ \E c \in Callers : SinkDone(c)
    \/ SaveTranscript
    \/ ClearLog
    \/ LoadTranscript

SpecTranscript == InitBus /\ [][NextTranscript]_vars

VotingDuration == 2
MaxVotingTime == 3

Voters == {"Alice", "Bob", "voter1"}
CandidateLists == {<<"Alice", "Bob">>, <<"Alice">>}

Keys(d) == {d[i][1] : i \in 1..Len(d)}
Values(d) == {d[i][2] : i \in 1..Len(d)}

\* d[k] for a key of d
Lookup(d, k) == d[CHOOSE i \in 1..Len(d) : d[i][1] = k][2]

\* every assignment adds an item
DictSetAppended(d, k, v) == Append(d, <<k, v>>)

\* d[k] = v
DictSet(d, k, v) ==
    IF k \in Keys(d)
    THEN [i \in 1..Len(d) |-> IF d[i][1] = k THEN <<k, v>> ELSE d[i]]
    ELSE Append(d, <<k, v>>)

\* Counter(vote.candidate for vote in self.votes.values())
Counter(d) ==
    [c \in Values(d) |-> Cardinality({i \in 1..Len(d) : d[i][2] = c})]

RECURSIVE SumOver(_, _)
SumOver(f, keys) ==
    IF keys = {} THEN 0
    ELSE LET k == CHOOSE x \in keys : TRUE
         IN  f[k] + SumOver(f, keys \ {k})

\* the winner of end_voting: None, the candidate with the most votes, or a tie
Winner(vote_counts) ==
    IF DOMAIN vote_counts = {} THEN "None"
    ELSE LET max_votes == CHOOSE n \in {vote_counts[c] : c \in DOMAIN vote_counts} :
                              \A c \in DOMAIN vote_counts : vote_counts[c] <= n
             winners == {c \in DOMAIN vote_counts : vote_counts[c] = max_votes}
         IN  IF Cardinality(winners) = 1 THEN CHOOSE c \in winners : TRUE ELSE "TIE"

\* _is_eligible_voter
IsEligibleVoter(voter_id) ==
    \/ voting_system.eligible_voters = <<>>
    \/ voter_id \in RangeOf(voting_system.eligible_voters)

\* the ValueError of cast_vote, "none" when the vote is recorded
CastVoteError(voter_id, candidate, justification) ==
    IF ~voting_system.is_active THEN "No active voting session"
    ELSE IF now > voting_system.end_time THEN "Voting period has ended"
    ELSE IF ~IsEligibleVoter(voter_id) THEN "not eligible to vote"
    ELSE IF candidate \notin RangeOf(voting_system.candidates) THEN "Invalid candidate"
    ELSE IF voter_id = candidate /\ ~voting_system.allow_participant_voting
         THEN "Self-voting is not allowed"
    ELSE IF voting_system.require_justification /\ ~justification
         THEN "Vote justification is required"
    ELSE "none"

VotingFrame ==
    UNCHANGED <<messages, message_counter, maxlen, transcriptVars, profileVars,
                restartVars, timingVars,
                put_raises, subscribers, queue, nq, web_server, lockHolder,
                lockWaiters, callerVars, histVars, botVars, debateVars>>

\* start_voting(candidates)
StartVoting(candidates) ==
    /\ IF voting_system.is_active
       THEN /\ returned' = [op |-> "start_voting", value |-> "ValueError"]
            /\ UNCHANGED voting_system
       ELSE /\ voting_system' =
                  [voting_system EXCEPT
                     !.candidates = candidates,
                     !.eligible_voters =
                         IF voting_system.allow_participant_voting
                         THEN candidates ELSE <<>>,
                     !.votes = <<>>,
                     !.end_time = now + VotingDuration,
                     !.is_active = TRUE]
            /\ returned' = [op |-> "start_voting", value |-> "None"]
    /\ UNCHANGED now
    /\ VotingFrame

\* cast_vote(voter_id, candidate, justification): justification is TRUE
\* when a non-empty text is given
CastVote(voter_id, candidate, justification) ==
    LET error == CastVoteError(voter_id, candidate, justification)
        votes == voting_system.votes
    IN  /\ returned' =
              [op |-> "cast_vote", voter_id |-> voter_id, candidate |-> candidate,
               value |-> IF error = "none" THEN "True" ELSE "ValueError",
               error |-> error,
               previous |-> IF voter_id \in Keys(votes)
                            THEN Lookup(votes, voter_id) ELSE "none"]
        /\ voting_system' =
              IF error = "none"
              THEN [voting_system EXCEPT !.votes = DictSet(votes, voter_id, candidate)]
              ELSE voting_system
        /\ UNCHANGED now
        /\ VotingFrame

\* end_voting()
EndVoting ==
    /\ IF ~voting_system.is_active
       THEN /\ returned' = [op |-> "end_voting", value |-> "ValueError"]
            /\ UNCHANGED voting_system
       ELSE LET vote_counts == Counter(voting_system.votes)
            IN  /\ voting_system' = [voting_system EXCEPT !.is_active = FALSE]
                /\ returned' =
                      [op |-> "end_voting", value |-> "VotingResults",
                       winner |-> Winner(vote_counts),
                       vote_counts |-> vote_counts,
                       total_votes |-> Len(voting_system.votes),
                       votes_by_voter |-> voting_system.votes]
    /\ UNCHANGED now
    /\ VotingFrame

\* a second passes
VotingTick ==
    /\ now < StartTime + MaxVotingTime
    /\ now' = now + 1
    /\ UNCHANGED callVars
    /\ VotingFrame

InitVoting ==
    /\ BusInit
    /\ CallersInit
    /\ BotInit
    /\ DebateIdle
    /\ maxlen = max_messages
    /\ put_raises = {}
    /\ web_server = FALSE
    /\ now = StartTime
    /\ NoTranscript
    /\ ProfileInit
    /\ voting_system \in {VotingSystemInit(allow, justify) : allow, justify \in BOOLEAN}
    /\ returned = NoCall

NextVoting ==
    \/ \E candidates \in CandidateLists : StartVoting(candidates)
    \/ \E voter_id, candidate \in Voters, justification \in BOOLEAN :
          CastVote(voter_id, candidate, justification)
    \/ EndVoting
    \/ VotingTick

SpecVoting == InitVoting /\ [][NextVoting]_vars

(***************************************************************************)
(* C25: in a voting session votes holds at most one vote per voter; a      *)
(* cast_vote that returns True leaves the voter's vote equal to the        *)
(* candidate just given and every other voter's vote as it was; a          *)
(* cast_vote that raises leaves votes unchanged; and the total_votes that  *)
(* end_voting reports equals the number of distinct voters and the sum of  *)
(* the vote counts.                                                        *)
(***************************************************************************)
C25_OneVotePerVoter ==
    /\ [](\A i, j \in 1..Len(voting_system.votes) :
             voting_system.votes[i][1] = voting_system.votes[j][1] => i = j)
    /\ []((returned.op = "end_voting" /\ returned.value = "VotingResults") =>
             /\ returned.total_votes = Cardinality(Keys(returned.votes_by_voter))
             /\ returned.total_votes =
                    SumOver(returned.vote_counts, DOMAIN returned.vote_counts))
    /\ [][(returned'.op = "cast_vote" /\ returned' # returned) =>
             LET votes == voting_system.votes
                 after == voting_system'.votes
             IN  IF returned'.value = "True"
                 THEN /\ Keys(after) = Keys(votes) \cup {returned'.voter_id}
                      /\ Lookup(after, returned'.voter_id) = returned'.candidate
                      /\ \A v \in Keys(votes) \ {returned'.voter_id} :
                             Lookup(after, v) = Lookup(votes, v)
                 ELSE after = votes]_vars

\* Alice changed her vote from Alice to Bob after Bob had voted
C25_Witness ==
    /\ returned.op = "cast_vote"
    /\ returned.value = "True"
    /\ returned.voter_id = "Alice"
    /\ returned.previous = "Alice"
    /\ returned.candidate = "Bob"
    /\ Len(voting_system.votes) = 2

(***************************************************************************)
(* C26: in an active session that has not expired, started with            *)
(* participant voting allowed and justification not required, cast_vote    *)
(* returns True for every voter id when the candidate is one of the        *)
(* session's candidates, also for a voter who is not a candidate.          *)
(***************************************************************************)
C26_AnyVoterMayVote ==
    [][(/\ returned'.op = "cast_vote"
        /\ returned' # returned
        /\ voting_system.is_active
        /\ now <= voting_system.end_time
        /\ voting_system.allow_participant_voting
        /\ ~voting_system.require_justification
        /\ returned'.candidate \in RangeOf(voting_system.candidates))
         => returned'.value = "True"]_vars

(***************************************************************************)
(* The legacy interface of a bot: receive_message and get_response keep    *)
(* conversation_history, reset_conversation empties it.                    *)
(***************************************************************************)
MaxGetResponses == 2

\* what every step on the bot's own fields leaves alone
ProfileFrame ==
    UNCHANGED <<messages, message_counter, maxlen, transcriptVars, callVars,
                restartVars, timingVars, stats, put_raises,
                subscribers, queue, nq, web_server, lockHolder, lockWaiters, now,
                callerVars, histVars, debateVars, is_monitoring, btask, message_queue,
                cancelPending, stopping, last_response_time, genKind, gen_failed>>

\* the history after receive_message appended an entry:
\* if len(history) > 20: history = history[-15:]
Trimmed(h) == IF Len(h) > 20 THEN SubSeq(h, Len(h) - 14, Len(h)) ELSE h

\* receive_message(message)
ReceiveMessage(b, sender) ==
    /\ conversation_history' =
          [conversation_history EXCEPT
             ![b] = IF sender # b THEN Trimmed(Append(@, "user")) ELSE @]
    /\ UNCHANGED <<response_count, conversation_energy, total_responses,
                   current_cooldown, posts, missed_opportunities, response_urgency>>
    /\ ProfileFrame

\* get_response(topic, recent_messages): the provider returns a text, or
\* raises and the fallback text is returned
GetResponse(b, outcome) ==
    /\ response_count[b] < MaxGetResponses
    /\ IF outcome = "text"
       THEN /\ conversation_history' =
                  [conversation_history EXCEPT ![b] = Append(@, "assistant")]
            /\ response_count' = [response_count EXCEPT ![b] = @ + 1]
       ELSE UNCHANGED <<conversation_history, response_count>>
    /\ UNCHANGED <<conversation_energy, total_responses, current_cooldown, posts,
                   missed_opportunities, response_urgency>>
    /\ ProfileFrame

\* reset_conversation()
ResetConversation(b) ==
    /\ conversation_history' = [conversation_history EXCEPT ![b] = <<>>]
    /\ response_count' = [response_count EXCEPT ![b] = 0]
    /\ conversation_energy' = [conversation_energy EXCEPT ![b] = 10]
    /\ response_urgency' = [response_urgency EXCEPT ![b] = 0]
    /\ missed_opportunities' = [missed_opportunities EXCEPT ![b] = 0]
    /\ UNCHANGED <<total_responses, current_cooldown, posts>>
    /\ ProfileFrame

NextHistory ==
    \/ \E sender \in {OtherSender, WatchedBot} : ReceiveMessage(WatchedBot, sender)
    \/ \E outcome \in {"text", "raise"} : GetResponse(WatchedBot, outcome)
    \/ ResetConversation(WatchedBot)

SpecHistory == InitBot /\ [][NextHistory]_vars

(***************************************************************************)
(* C27: after any sequence of receive_message and get_response calls the   *)
(* bot's conversation_history holds at most 20 entries.                    *)
(***************************************************************************)
C27_HistoryAtMostTwenty ==
    \A b \in AllBots : Len(conversation_history[b]) <= 20

(***************************************************************************)
(* The counters of one bot over its life.  Each pass of the monitoring     *)
(* loop ends at the cooldown gate, at a draw that passes, or with a        *)
(* response appended; which one is decided by the clock and the draws,     *)
(* left open here, so that the bot can act many times.                     *)
(***************************************************************************)
MaxActions == 16
MaxRejections == 4

\* the cooldown gate turns a message or a timeout away (267-270, 284-287)
CounterGated(b) ==
    /\ missed_opportunities[b] < MaxRejections
    /\ response_urgency[b] < MaxRejections
    /\ missed_opportunities' =
          [missed_opportunities EXCEPT ![b] = MissedAfter(@, "gated")]
    /\ response_urgency' = [response_urgency EXCEPT ![b] = UrgencyAfter(@, "gated")]
    /\ UNCHANGED <<profileVars, total_responses, current_cooldown, posts>>
    /\ ProfileFrame

\* _should_respond_autonomously draws a pass
CounterPass(b) ==
    /\ missed_opportunities[b] < MaxRejections
    /\ missed_opportunities' =
          [missed_opportunities EXCEPT ![b] = MissedAfter(@, "pass")]
    /\ response_urgency' = [response_urgency EXCEPT ![b] = UrgencyAfter(@, "pass")]
    /\ UNCHANGED <<profileVars, total_responses, current_cooldown, posts>>
    /\ ProfileFrame

\* _generate_autonomous_response appended a response: the updates of its
\* counters
CounterPosted(b) ==
    /\ total_responses[b] < MaxActions
    /\ total_responses' = [total_responses EXCEPT ![b] = @ + 1]
    /\ response_urgency' = [response_urgency EXCEPT ![b] = UrgencyAfter(@, "posted")]
    /\ missed_opportunities' =
          [missed_opportunities EXCEPT ![b] = MissedAfter(@, "posted")]
    /\ conversation_energy' = [conversation_energy EXCEPT ![b] = Min2(15, @ + 1)]
    /\ current_cooldown' =
          [current_cooldown EXCEPT ![b] = NewCooldown(total_responses[b] + 1)]
    /\ posts' = [posts EXCEPT ![b] = Append(@, <<now, current_cooldown[b], "reactive">>)]
    /\ UNCHANGED <<conversation_history, response_count>>
    /\ ProfileFrame

NextCounters ==
    \/ CounterGated(WatchedBot)
    \/ CounterPass(WatchedBot)
    \/ CounterPosted(WatchedBot)
    \/ ResetConversation(WatchedBot)

SpecCounters == InitBot /\ [][NextCounters]_vars

(***************************************************************************)
(* C29: min_cooldown <= current_cooldown <= max_cooldown in every state,   *)
(* current_cooldown never decreases, and after k appended responses it is  *)
(* min(max_cooldown, min_cooldown + k/2).                                  *)
(***************************************************************************)
C29_CooldownClampedMonotone ==
    /\ [](\A b \in AllBots :
             /\ 2 * min_cooldown <= current_cooldown[b]
             /\ current_cooldown[b] <= 2 * max_cooldown
             /\ current_cooldown[b] =
                    Min2(2 * max_cooldown, 2 * min_cooldown + Len(posts[b])))
    /\ [][\A b \in AllBots : current_cooldown'[b] >= current_cooldown[b]]_vars

\* the bot has acted more often than the cooldown can grow
C29_Witness ==
    /\ Len(posts[WatchedBot]) > 2 * (max_cooldown - min_cooldown)
    /\ current_cooldown[WatchedBot] = 2 * max_cooldown

MaxCount == 3

\* s[-n:] of a Python list, n >= 0: -0 is 0, so s[-0:] is the whole list
LastSlice(s, n) ==
    IF n = 0 \/ n >= Len(s) THEN s ELSE SubSeq(s, Len(s) - n + 1, Len(s))

\* [m for m in s if keep(m)]
RECURSIVE Filtered(_, _, _)
Filtered(s, sender, since) ==
    IF s = <<>> THEN <<>>
    ELSE LET m == Head(s)
             keep == /\ (sender # "" => m.sender = sender)
                     /\ (since # 0 => m.timestamp > since)
         IN  (IF keep THEN <<m>> ELSE <<>>) \o Filtered(Tail(s), sender, since)

QueryFrame ==
    UNCHANGED <<messages, message_counter, maxlen, transcriptVars, profileVars,
                restartVars, timingVars,
                voting_system, put_raises, subscribers, queue, nq, web_server,
                lockHolder, lockWaiters, now, callerVars, histVars, botVars, debateVars>>

\* get_recent_messages(count)
GetRecentMessages(count) ==
    /\ returned' = [op |-> "get_recent_messages", count |-> count,
                    value |-> LastSlice(messages, count)]
    /\ QueryFrame

\* get_messages(limit, sender, since_timestamp=since): a sender of "" and a
\* timestamp of 0 are falsy and filter nothing, as a limit of 0 limits nothing
GetMessages(limit, sender, since) ==
    /\ returned' =
          [op |-> "get_messages", limit |-> limit, sender |-> sender, since |-> since,
           value |-> LET matching == Filtered(messages, sender, since)
                     IN  IF limit # 0 THEN LastSlice(matching, limit) ELSE matching]
    /\ QueryFrame

NextQueries ==
    \/ \E c \in Callers : AddMessage(c, c)
    \/ \E c \in Callers : AddMessageAcquire(c)
    \/ \E c \in Callers : SinkDone(c)
    \/ \E q \in QueueIds : Subscribe(q)
    \/ \E count \in 0..MaxCount : GetRecentMessages(count)
    \/ \E limit \in 0..MaxCount, sender \in Callers \cup {""}, since \in {0, StartTime - 1} :
          GetMessages(limit, sender, since)

SpecQueries == InitBus /\ [][NextQueries]_vars

\* the last k items of s
LastOf(s, k) == SubSeq(s, Len(s) - k + 1, Len(s))

(***************************************************************************)
(* C28: get_recent_messages(n) returns exactly the last min(n, size)       *)
(* stored events in storage order for every n >= 0, get_messages with a    *)
(* limit returns the last limit events matching its filters, and neither   *)
(* changes the window, the id counter or the subscriber list.              *)
(***************************************************************************)
C28_QueriesReturnLastN ==
    [][(returned' # returned /\ returned'.op \in {"get_recent_messages", "get_messages"}) =>
          /\ UNCHANGED <<messages, message_counter, subscribers>>
          /\ returned'.op = "get_recent_messages" =>
                 returned'.value = LastOf(messages, Min2(returned'.count, Len(messages)))
          /\ returned'.op = "get_messages" =>
                 LET matching == Filtered(messages, returned'.sender, returned'.since)
                 IN  returned'.value =
                         LastOf(matching, Min2(returned'.limit, Len(matching)))]_vars

(***************************************************************************)
(* C31: missed_opportunities and response_urgency are bounded              *)
(* accumulators.  The code has no ceiling for either, so the statement is  *)
(* checked against the largest values this model follows: however high     *)
(* MaxRejections is set, events gated by the cooldown must leave both      *)
(* counters below it.                                                      *)
(***************************************************************************)
C31_AccumulatorsBounded ==
    \A b \in AllBots :
        /\ missed_opportunities[b] < MaxRejections
        /\ response_urgency[b] < MaxRejections

(***************************************************************************)
(* C32: when the monitoring loop takes an event whose sender is the bot    *)
(* itself, the event reaches neither the cooldown gate nor the scoring nor *)
(* the generator: missed_opportunities, response_urgency,                  *)
(* last_response_time and the bot's counters stay as they were, nothing is *)
(* appended, and the loop is back at its wait.                             *)
(***************************************************************************)
C32_OwnEventsIgnored ==
    [][\A b \in AllBots :
          (TakesMessage(b) /\ NextMessage(b).sender = b) =>
              /\ missed_opportunities'[b] = missed_opportunities[b]
              /\ response_urgency'[b] = response_urgency[b]
              /\ last_response_time'[b] = last_response_time[b]
              /\ total_responses'[b] = total_responses[b]
              /\ current_cooldown'[b] = current_cooldown[b]
              /\ gen_failed'[b] = gen_failed[b]
              /\ posts'[b] = posts[b]
              /\ messages' = messages
              /\ btask'[b] = LoopTop(is_monitoring[b])]_vars

\* the bot has taken its own response from its queue while its cooldown was
\* running, and no opportunity was counted as missed
C32_Witness ==
    LET q == message_queue[WatchedBot]
    IN  /\ q # 0
        /\ queue[q] = <<>>
        /\ posts[WatchedBot] # <<>>
        /\ messages[Len(messages)].sender = WatchedBot
        /\ btask[WatchedBot] = "wait"
        /\ CooldownActive(WatchedBot)
        /\ missed_opportunities[WatchedBot] = 0
        /\ response_urgency[WatchedBot] = 0

(***************************************************************************)
(* C33: a timeout cycle makes at most one generator call, for a            *)
(* silence-break or for a conversation starter, never for both, and the    *)
(* loop is back at its wait before any further call; a silence-break is    *)
(* called for only when the last stored event is more than 7 seconds old   *)
(* and none of the last 5 stored events is the bot's.                      *)
(***************************************************************************)
C33_OneProactiveActionPerCycle ==
    [][\A b \in AllBots :
          /\ (btask[b] = "wait" /\ btask'[b] = "gen") =>
                 /\ genKind'[b] \in {"reactive", "spontaneous", "starter"}
                 /\ genKind'[b] = "spontaneous" =>
                        /\ messages # <<>>
                        /\ now - messages[Len(messages)].timestamp > 7
                        /\ MyRecentCount(b, messages) = 0
                 /\ genKind'[b] = "starter" =>
                        /\ messages # <<>>
                        /\ now - messages[Len(messages)].timestamp <= 10
          /\ (btask[b] = "gen" /\ btask'[b] # "gen") =>
                 /\ btask'[b] \in {"wait", "done", "cancelled"}
                 /\ Len(posts'[b]) <= Len(posts[b]) + 1
          /\ btask[b] = "gen" => genKind'[b] \in {genKind[b], "none"}]_vars

\* the generator is being called for a silence-break
C33_Witness ==
    /\ btask[TheBot] = "gen"
    /\ genKind[TheBot] = "spontaneous"
    /\ MyRecentCount(TheBot, messages) = 0

(***************************************************************************)
(* The accept/reject decision of _should_respond_autonomously for a        *)
(* message that does not address the bot.  Probabilities are in units of   *)
(* 1/10000, multipliers and the energy and urgency in tenths.  The signals *)
(* computed from the text, the bot's share of the last ten events and the  *)
(* personality of its configuration are the inputs of a call.              *)
(***************************************************************************)
Triggers == {"stance_challenged", "question_in_domain", "topic_shift",
             "silence_too_long", "expertise_needed"}
Personalities == {"aggressive", "passionate", "thoughtful", "analytical",
                  "critical", "balanced", "calm"}

\* _get_personality_multiplier, in tenths
PersonalityMultiplier(personality, triggers) ==
    CASE personality = "aggressive" -> 14
      [] personality = "passionate" -> 15
      [] personality = "thoughtful" ->
            IF "question_in_domain" \in triggers THEN 16 ELSE 10
      [] personality = "analytical" ->
            IF "expertise_needed" \in triggers THEN 15 ELSE 11
      [] personality = "critical" ->
            IF "stance_challenged" \in triggers THEN 14 ELSE 12
      [] personality = "balanced" ->
            IF "stance_challenged" \in triggers THEN 13 ELSE 11
      [] OTHER -> 10

\* base_probability just before the cap
BaseProbability(in, energy, urgency, missed) ==
    LET bonuses == (IF "stance_challenged" \in in.triggers THEN 8000 ELSE 0)
                 + (IF "question_in_domain" \in in.triggers THEN 7000 ELSE 0)
                 + (IF "topic_shift" \in in.triggers THEN 5000 ELSE 0)
                 + (IF "silence_too_long" \in in.triggers THEN 6000 ELSE 0)
                 + (IF "expertise_needed" \in in.triggers THEN 6000 ELSE 0)
                 + (IF in.burning_question THEN 5000 ELSE 0)
        scored == 8000 + bonuses
        shared == IF in.my_recent_count = 0 THEN scored + 1500
                  ELSE IF in.my_recent_count >= 3 THEN (scored * 7) \div 10
                  ELSE scored
        weighted == (shared * PersonalityMultiplier(in.personality, in.triggers)) \div 10
    IN  weighted + energy * 200 + urgency * 300 + (IF missed > 2 THEN 2000 ELSE 0)

\* the probability left without its cap
FinalProbabilityUncapped(in, energy, urgency, missed) ==
    BaseProbability(in, energy, urgency, missed)

\* final_probability = min(base_probability, 0.95)
FinalProbability(in, energy, urgency, missed) ==
    Min2(BaseProbability(in, energy, urgency, missed), 9500)

ScoringInputs ==
    [op : {"scoring"}, triggers : SUBSET Triggers, burning_question : BOOLEAN,
     my_recent_count : {0, 1, 3}, personality : Personalities]

\* a bot whose counters have any of the values its life can give them is
\* about to score a message
InitScoring ==
    /\ OpenedBus
    /\ messages = OpeningHistory(OtherSender)
    /\ BotLoopInit
    /\ StatsInit
    /\ NoTranscript
    /\ voting_system = VotingSystemInit(TRUE, TRUE)
    /\ conversation_history = [b \in AllBots |-> <<>>]
    /\ response_count = [b \in AllBots |-> 0]
    /\ \E e \in 10..15 :
          conversation_energy = [b \in AllBots |-> IF b = WatchedBot THEN e ELSE 10]
    /\ \E u \in 0..MaxRejections :
          response_urgency = [b \in AllBots |-> IF b = WatchedBot THEN u ELSE 0]
    /\ \E m \in 0..MaxRejections :
          missed_opportunities = [b \in AllBots |-> IF b = WatchedBot THEN m ELSE 0]
    /\ returned \in ScoringInputs

\* _should_respond_autonomously from the probability to its return; draw is
\* random.random(), in [0, 1)
ShouldRespondAutonomously(b, draw) ==
    /\ returned.op = "scoring"
    /\ LET final_probability ==
               FinalProbability(returned, conversation_energy[b],
                                response_urgency[b], missed_opportunities[b])
           should_respond == draw < final_probability
       IN  /\ returned' = [op |-> "_should_respond_autonomously",
                           final_probability |-> final_probability,
                           draw |-> draw, value |-> should_respond]
           /\ missed_opportunities' =
                 [missed_opportunities EXCEPT
                    ![b] = IF should_respond THEN @ ELSE MissedAfter(@, "pass")]
    /\ UNCHANGED <<response_urgency, profileVars, total_responses, current_cooldown, posts>>
    /\ UNCHANGED <<messages, message_counter, maxlen, transcriptVars, voting_system,
                   restartVars, timingVars, stats, put_raises, subscribers, queue, nq, web_server, lockHolder,
                   lockWaiters, now, callerVars, histVars, debateVars, is_monitoring,
                   btask, message_queue, cancelPending, stopping, last_response_time,
                   genKind, gen_failed>>

NextScoring ==
    \E draw \in {0, 9500} : ShouldRespondAutonomously(WatchedBot, draw)

SpecScoring == InitScoring /\ [][NextScoring]_vars

(***************************************************************************)
(* C34: for a message that does not address the bot the probability used   *)
(* for the draw is greater than 0 and at most 0.95 whatever the signals,   *)
(* the personality, the energy, the urgency and the missed opportunities   *)
(* are: the lowest draw is accepted and a draw of 0.95 or more rejected.   *)
(***************************************************************************)
C34_ProbabilityKeepsBothOutcomes ==
    returned.op = "_should_respond_autonomously" =>
        /\ returned.final_probability > 0
        /\ returned.final_probability <= 9500
        /\ returned.draw = 0 => returned.value
        /\ returned.draw >= 9500 => ~returned.value

\* a draw of 0.95 rejected for a bot with every bonus, full energy and urgency
C34_Witness ==
    /\ returned.op = "_should_respond_autonomously"
    /\ returned.draw = 9500
    /\ ~returned.value
    /\ returned.final_probability = 9500
    /\ conversation_energy[WatchedBot] = 15
    /\ response_urgency[WatchedBot] = MaxRejections

(***************************************************************************)
(* The facilitation loop on a bus that is at capacity when the discussion  *)
(* starts: every further event evicts the oldest one.                      *)
(***************************************************************************)
InitSilence ==
    /\ DiscussionStarted
    /\ messages = << Message(OtherSender, "response", StartTime, 1),
                     Message("moderator", "discussion", StartTime, 2) >>
    /\ message_counter = 2
    /\ last_message_count = 2
    /\ maxlen = max_messages

SpecSilence == InitSilence /\ [][NextFacilitate]_vars

(***************************************************************************)
(* C35: the facilitation loop appends a silence prompt only when the       *)
(* newest event of the bus is at least silence_timeout seconds old and its *)
(* previous prompt at least 45 seconds, also on a bus that is at capacity. *)
(***************************************************************************)
C35_PromptOnlyAfterSilence ==
    [][last_moderator_prompt' # last_moderator_prompt =>
          /\ now' - messages[Len(messages)].timestamp >= silence_timeout
          /\ now' - last_moderator_prompt >= 45]_vars

(***************************************************************************)
(* C36: a timeout cycle, in which no event was received, leaves            *)
(* missed_opportunities and response_urgency unchanged: the counters       *)
(* change only in a step that takes an event of another sender from the    *)
(* queue or in one that appends the bot's response.                        *)
(***************************************************************************)
C36_TimeoutLeavesCounters ==
    [][\A b \in AllBots :
          (\/ missed_opportunities'[b] # missed_opportunities[b]
           \/ response_urgency'[b] # response_urgency[b]) =>
              \/ TakesMessage(b) /\ NextMessage(b).sender # b
              \/ btask[b] = "gen" /\ Len(posts'[b]) > Len(posts[b])]_vars

(***************************************************************************)
(* Repeated start_autonomous_monitoring and stop_monitoring calls on one   *)
(* bot whose ChatLog holds no event: every cycle of a loop is a timeout    *)
(* that _check_spontaneous_contribution leaves at "if not self.chat_log".  *)
(***************************************************************************)
\* start_autonomous_monitoring calls that are explored
MaxStarts == 3

\* start_autonomous_monitoring, whatever self.monitoring_task is: the new
\* queue and the new task replace the references to the earlier ones
StartAutonomousMonitoring(b) ==
    /\ stopping[b] # "awaiting"
    /\ nq < MaxStarts
    /\ is_monitoring' = [is_monitoring EXCEPT ![b] = TRUE]
    /\ nq' = nq + 1
    /\ subscribers' = Append(subscribers, nq + 1)
    /\ queue' = queue @@ ((nq + 1) :> <<>>)
    /\ delivered' = delivered @@ ((nq + 1) :> <<>>)
    /\ subAt' = subAt @@ ((nq + 1) :> Len(appended))
    /\ message_queue' = [message_queue EXCEPT ![b] = nq + 1]
    /\ bot_queues' = [bot_queues EXCEPT ![b] = Append(@, nq + 1)]
    /\ orphans' = [orphans EXCEPT
                      ![b] = IF btask[b] \in {"wait", "gen"} THEN @ + 1 ELSE @]
    /\ btask' = [btask EXCEPT ![b] = "wait"]
    /\ stopping' = [stopping EXCEPT ![b] = "none"]
    /\ UNCHANGED <<messages, maxlen, transcriptVars, callVars, profileVars, timingVars,
                   put_raises, message_counter, web_server, lockHolder, lockWaiters, now,
                   appended, issued>>
    /\ UNCHANGED <<cancelPending, last_response_time, total_responses,
                   current_cooldown, genKind, posts, attnVars>>

\* one cycle of the loop self.monitoring_task refers to, on an empty log:
\* wait_for times out, _check_spontaneous_contribution returns at once
BotIdleCycle(b) ==
    /\ btask[b] = "wait"
    /\ ~cancelPending[b]
    /\ messages = <<>>
    /\ queue[message_queue[b]] = <<>>
    /\ btask' = [btask EXCEPT ![b] = LoopTop(is_monitoring[b])]
    /\ UNCHANGED <<busVars, histVars>>
    /\ UNCHANGED <<is_monitoring, message_queue, cancelPending, stopping,
                   last_response_time, total_responses, current_cooldown, genKind, posts,
                   attnVars>>

\* the same cycle of a loop task that is no longer referred to: it reads
\* self.is_monitoring and self.message_queue like the current one
OrphanIdleCycle(b) ==
    /\ orphans[b] > 0
    /\ messages = <<>>
    /\ queue[message_queue[b]] = <<>>
    /\ orphans' = [orphans EXCEPT ![b] = IF is_monitoring[b] THEN @ ELSE @ - 1]
    /\ UNCHANGED <<messages, maxlen, transcriptVars, callVars, profileVars, bot_queues,
                   timingVars, put_raises, message_counter, subscribers, queue, nq, web_server,
                   lockHolder, lockWaiters, now, histVars>>
    /\ UNCHANGED botVars

InitRestart ==
    /\ messages = <<>>
    /\ message_counter = 0
    /\ QuietBus
    /\ BotInit
    /\ ExtInit

NextRestart ==
    \/ StartAutonomousMonitoring(TheBot) /\ UNCHANGED <<callerVars, debateVars>>
    \/ BotIdleCycle(TheBot) /\ UNCHANGED <<callerVars, debateVars>>
    \/ OrphanIdleCycle(TheBot) /\ UNCHANGED <<callerVars, debateVars>>
    \/ Tick
    \/ Cancelled
    \/ StopMonitoring
    \/ StopMonitoringReturn

SpecRestart == InitRestart /\ [][NextRestart]_vars

\* the queues of the subscriber list that the bot's starts created
OwnSubscriptions(b) == {q \in RangeOf(subscribers) : q \in RangeOf(bot_queues[b])}

\* the bot's loop tasks that have not ended
RunningLoops(b) == orphans[b] + (IF btask[b] \in {"wait", "gen"} THEN 1 ELSE 0)

(***************************************************************************)
(* C37: whatever sequence of start_autonomous_monitoring and               *)
(* stop_monitoring calls a bot is given, the subscriber list holds at most *)
(* one of its queues and at most one of its loop tasks runs, and none of   *)
(* either once stop_monitoring has returned.                               *)
(***************************************************************************)
C37_OneQueueOneLoop ==
    \A b \in AllBots :
        /\ Cardinality(OwnSubscriptions(b)) <= 1
        /\ RunningLoops(b) <= 1
        /\ stopping[b] = "returned" =>
               OwnSubscriptions(b) = {} /\ RunningLoops(b) = 0

\* the part of C37 about a stop_monitoring call that finds no running loop:
\* it returns without changing the subscriber list or the bot's fields
C37_IdleStopChangesNothing ==
    [][\A b \in AllBots :
          (btask[b] \in {"none", "done", "cancelled"} /\ orphans[b] = 0
             /\ stopping[b] # "awaiting" /\ stopping'[b] = "returned"
             /\ ~is_monitoring[b]
             /\ (message_queue[b] # 0 => message_queue[b] \notin RangeOf(subscribers))) =>
                /\ subscribers' = subscribers
                /\ btask'[b] = btask[b]
                /\ message_queue'[b] = message_queue[b]
                /\ is_monitoring'[b] = is_monitoring[b]]_vars

(***************************************************************************)
(* A debate in which a cycle of the human's participation loop may fail:   *)
(* the handler of the loop reports the error and sleeps two seconds.       *)
(***************************************************************************)
\* a call of the loop body raises (the terminal, add_message): "except
\* Exception" shows the error and suspends in asyncio.sleep(2)
HumanLoopError(h) ==
    /\ htask[h] = "input"
    /\ ~hcancel[h]
    /\ htask' = [htask EXCEPT ![h] = "backoff"]
    /\ UNCHANGED <<is_active, hqueue, hcancel, hposted>>
    /\ UNCHANGED <<busVars, callerVars, histVars, botVars, modVars>>

\* the sleep ends: "while self.is_active" is evaluated again
HumanBackoffEnds(h) ==
    /\ htask[h] = "backoff"
    /\ ~hcancel[h]
    /\ htask' = [htask EXCEPT ![h] = "input"]
    /\ UNCHANGED <<is_active, hqueue, hcancel, hposted>>
    /\ UNCHANGED <<busVars, callerVars, histVars, botVars, modVars>>

\* the CancelledError of task.cancel() is raised at the sleep, inside the
\* handler: nothing catches it, the task ends before
\* "chat_log.unsubscribe(message_queue)"
HumanCancelledInBackoff(h) ==
    /\ hcancel[h]
    /\ htask[h] = "backoff"
    /\ htask' = [htask EXCEPT ![h] = "cancelled"]
    /\ hcancel' = [hcancel EXCEPT ![h] = FALSE]
    /\ UNCHANGED <<is_active, hqueue, hposted>>
    /\ UNCHANGED <<busVars, callerVars, histVars, botVars, modVars>>

HumanLoopFails == Suspended /\ \E h \in Humans : HumanLoopError(h)
HumanLoopResumes == Suspended /\ \E h \in Humans : HumanBackoffEnds(h)
HumanLoopEnds == Suspended /\ \E h \in Humans : HumanCancelledInBackoff(h)

NextCleanup ==
    \/ SessionStep
    \/ HumanPosts
    \/ HumanLoopFails
    \/ HumanLoopResumes
    \/ HumanLoopEnds

SpecCleanup == InitDebate /\ [][NextCleanup]_vars

(***************************************************************************)
(* C38: once _cleanup_autonomous_tasks has returned, the subscriber list   *)
(* holds no queue that the loop of a bot or of a human subscribed.         *)
(***************************************************************************)
C38_CleanupUnsubscribesAll ==
    (autonomous_mode /\ phase = "FINISHED") =>
        /\ \A b \in AllBots : message_queue[b] \notin RangeOf(subscribers)
        /\ \A h \in Humans : hqueue[h] \notin RangeOf(subscribers)

(***************************************************************************)
(* The sequential discussion with its clock: _traditional_discussion_phase *)
(* gives turns of response_time seconds, shortened to int(remaining) near  *)
(* the end of the budget; the polling loop of a turn sleeps half a second  *)
(* per iteration.  Times are in half seconds where the code has floats.    *)
(***************************************************************************)
\* add_message under the sender "moderator" in a step that sets the clock
TimedBroadcast(content) ==
    /\ lockHolder = NoOne /\ ~web_server
    /\ BusAppend("moderator", content)
    /\ UNCHANGED <<maxlen, transcriptVars, callVars, profileVars, restartVars, put_raises,
                   subscribers, nq, web_server, lockHolder, lockWaiters, now, histVars>>

\* the phase up to its while loop: start_time = time.time()
InitTimedTurns ==
    /\ BusInit
    /\ CallersInit
    /\ BotInit
    /\ HumanInit
    /\ TimingInit
    /\ phase = "DISCUSSION"
    /\ mpc = "turn_next"
    /\ current_speaker = NoOne
    /\ warnings_issued = [p \in Participants |-> 0]
    /\ turn = [kind |-> "response", left |-> <<>>, resp |-> "none", warned |-> FALSE]
    /\ todo = <<>>
    /\ raisedExc = FALSE
    /\ error_reports = 0
    /\ facilitated = 0
    /\ discussion_turns = 0
    /\ cancels = [p \in Participants |-> 0]
    /\ last_activity_time = StartTime
    /\ last_moderator_prompt = 0
    /\ last_message_count = 0
    /\ autonomous_mode = FALSE
    /\ turn_order = <<"Socrates", "Human_1">>
    /\ voting_enabled = TRUE
    /\ maxlen = max_messages
    /\ NoTranscript
    /\ voting_system = VotingSystemInit(TRUE, TRUE)
    /\ returned = NoCall
    /\ ProfileInit
    /\ put_raises = {}
    /\ web_server = FALSE
    /\ now = StartTime

\* "while time.time() - start_time < total_time": the for loop starts over
TimedNextRound ==
    /\ mpc = "turn_next"
    /\ turn.left = <<>>
    /\ elapsed < 2 * TotalSeconds
    /\ turn' = [turn EXCEPT !.left = turn_order]
    /\ UNCHANGED <<phase, mpc, current_speaker, warnings_issued, todo, raisedExc,
                   error_reports, facilitated, discussion_turns, cancels>>
    /\ NoPost
    /\ ModFrame

\* int(remaining) of a remaining time given in half seconds
IntSeconds(halves) == halves \div 2

\* one iteration of the for loop that gives a turn: response_time is
\* shortened to int(remaining), then _give_structured_turn up to the start
\* of its polling loop
TimedGiveTurn ==
    /\ mpc = "turn_next"
    /\ turn.left # <<>>
    /\ elapsed < 2 * TotalSeconds
    /\ discussion_turns < MaxDiscussionTurns
    /\ LET remaining == 2 * TotalSeconds - elapsed
           limit == IF remaining < 2 * response_time THEN IntSeconds(remaining)
                    ELSE response_time
       IN  /\ response_time' = limit
           /\ time_limit' = limit
    /\ turn_start' = elapsed
    /\ UNCHANGED elapsed
    /\ discussion_turns' = discussion_turns + 1
    /\ current_speaker' = Head(turn.left)
    /\ TimedBroadcast("turn")
    /\ turn' = [turn EXCEPT !.resp = "pending", !.warned = FALSE]
    /\ mpc' = "turn_poll"
    /\ UNCHANGED <<phase, warnings_issued, todo, raisedExc, error_reports,
                   facilitated, cancels>>
    /\ ModFrame

\* one iteration of the polling loop while the response task is not done:
\* with no time left the task is cancelled and awaited, _handle_timeout
\* counts the warning and the turn ends (a cancelled task has no response
\* to process); otherwise the warning is sent once and the loop sleeps
TimedPoll ==
    /\ mpc = "turn_poll"
    /\ turn.resp = "pending"
    /\ LET remaining == 2 * time_limit - (elapsed - turn_start)
       IN  IF remaining <= 0
           THEN /\ cancels' = [cancels EXCEPT ![current_speaker] = @ + 1]
                /\ warnings_issued' = HandleTimeout(warnings_issued, current_speaker)
                /\ TimedBroadcast("timeout")
                /\ current_speaker' = NoOne
                /\ turn' = [turn EXCEPT !.left = Tail(turn.left), !.resp = "none"]
                /\ mpc' = "turn_next"
                /\ UNCHANGED timingVars
           ELSE /\ IF ~turn.warned /\ remaining <= 2 * warning_time
                   THEN /\ TimedBroadcast("warning")
                        /\ turn' = [turn EXCEPT !.warned = TRUE]
                   ELSE /\ UNCHANGED <<messages, maxlen, transcriptVars, callVars,
                                       profileVars, restartVars, put_raises,
                                       message_counter, subscribers, queue, nq,
                                       web_server, lockHolder, lockWaiters, now, histVars>>
                        /\ UNCHANGED turn
                /\ elapsed' = elapsed + 1
                /\ UNCHANGED <<response_time, time_limit, turn_start>>
                /\ UNCHANGED <<mpc, current_speaker, warnings_issued, cancels>>
    /\ UNCHANGED <<phase, todo, raisedExc, error_reports, facilitated, discussion_turns>>
    /\ ModFrame

\* the response task ends while the polling loop sleeps
TimedResponds ==
    /\ elapsed > turn_start
    /\ \E outcome \in {"text", "empty"} : TurnResponse(outcome)

\* time that passes in the awaits between two turns
TimePasses ==
    /\ mpc = "turn_next"
    /\ elapsed < 2 * TotalSeconds
    /\ elapsed' = elapsed + 1
    /\ UNCHANGED <<messages, maxlen, transcriptVars, callVars, profileVars, restartVars,
                   response_time, time_limit, turn_start, put_raises, message_counter,
                   subscribers, queue, nq, web_server, lockHolder, lockWaiters, now>>
    /\ UNCHANGED <<callerVars, histVars, botVars, debateVars>>

\* the budget has expired: "Sequential discussion phase complete!"
TimedComplete ==
    /\ mpc = "turn_next"
    /\ elapsed >= 2 * TotalSeconds
    /\ Broadcast("discussion_complete")
    /\ turn' = NoTurn
    /\ mpc' = "closing"
    /\ UNCHANGED <<phase, current_speaker, warnings_issued, todo, raisedExc,
                   error_reports, facilitated, discussion_turns, cancels>>
    /\ ModFrame

NextTimedTurns ==
    \/ TimedNextRound
    \/ TimedGiveTurn
    \/ TimedPoll
    \/ TimedResponds
    \/ TurnCollect
    \/ TimePasses
    \/ TimedComplete

SpecTimedTurns == InitTimedTurns /\ [][NextTimedTurns]_vars

(***************************************************************************)
(* C39: a step of a structured turn that counts a timeout warning for a    *)
(* participant appends no response of that participant, a response is      *)
(* appended only for the turn in progress and when its task was not        *)
(* cancelled, and no warning is counted for a turn whose time limit is     *)
(* zero or negative.                                                       *)
(***************************************************************************)
C39_ResponseOrWarning ==
    [][\A p \in Participants :
          LET warned == warnings_issued'[p] > warnings_issued[p]
              responded == EventsOf(p)' > EventsOf(p)
          IN  /\ ~(warned /\ responded)
              /\ responded => /\ current_speaker = p
                              /\ turn.resp = "text"
                              /\ cancels'[p] = cancels[p]
              /\ warned => time_limit > 0]_vars

\* C39 without its last part: no warning for a turn of no time
C39_ResponseOrWarningOnly ==
    [][\A p \in Participants :
          LET warned == warnings_issued'[p] > warnings_issued[p]
              responded == EventsOf(p)' > EventsOf(p)
          IN  /\ ~(warned /\ responded)
              /\ responded => /\ current_speaker = p
                              /\ turn.resp = "text"
                              /\ cancels'[p] = cancels[p]]_vars

(***************************************************************************)
(* One monitoring bot whose statistics are followed: the session of        *)
(* SpecAttention with self.stats of the watched bot.                       *)
(***************************************************************************)
InitStats ==
    /\ OpenedBus
    /\ BotLoopInit
    /\ missed_opportunities = [b \in AllBots |-> 0]
    /\ response_urgency = [b \in AllBots |-> 0]
    /\ stats = [b \in AllBots |-> Statistics(b = WatchedBot)]
    /\ ExtInit

SpecStats == InitStats /\ [][NextAttention]_vars

\* the events the bot's loop appended through one path
PostedThrough(b, kind) == Cardinality({i \in 1..Len(posts[b]) : posts[b][i][3] = kind})

(***************************************************************************)
(* C40: stats['silence_breaks'] and stats['conversation_starters'] of a    *)
(* bot are the numbers of events it appended through the silence-break     *)
(* path and the conversation-starter path, and their sum does not exceed   *)
(* stats['autonomous_responses'].                                          *)
(***************************************************************************)
C40_PathStatisticsCountEvents ==
    \A b \in AllBots :
        stats[b].observed =>
            /\ stats[b].silence_breaks = PostedThrough(b, "spontaneous")
            /\ stats[b].conversation_starters = PostedThrough(b, "starter")
            /\ stats[b].silence_breaks + stats[b].conversation_starters
                  <= stats[b].autonomous_responses

=============================================================================
